---- MODULE Spec2Model ----
(***************************************************************************)
(* Verification model of sourcecheck: the Checker orchestrator             *)
(* (verify_summary, the retriever cache) and the ArbitrationEngine.        *)
(*                                                                         *)
(* Scores, thresholds and weights are fixed-point integers in thousandths  *)
(* (1000 = 1.0).  Texts are sequences of lower-case word tokens.           *)
(***************************************************************************)
EXTENDS Integers, Sequences, FiniteSets, TLC

\* ------------------------------------------------------------------ bounds
MaxTranscript == 4      \* transcripts are 1..MaxTranscript
MaxCacheSize == 2       \* max_cache_size ranges over 0..MaxCacheSize
MaxCalls == 3           \* retriever lookups between two clear_cache, default policy
MaxPipelineCalls == 1   \* the same, policies with several validators and modules
MaxResults == 3         \* ValidatorResults handed to one arbitrate call
MaxEvidence == 6        \* evidence spans handed to one arbitrate call

\* Optional[...] = None
None == -1

Verdicts == {"supported", "refuted", "insufficient_evidence"}

Min(a, b) == IF a <= b THEN a ELSE b
Max(a, b) == IF a >= b THEN a ELSE b

Range(s) == {s[i] : i \in DOMAIN s}

RECURSIVE SumSeq(_)
SumSeq(s) == IF s = <<>> THEN 0 ELSE Head(s) + SumSeq(Tail(s))

\* body applied to the value of an expression, which is computed once
Bind(value, body(_)) == CHOOSE r \in {body(v) : v \in {value}} : TRUE

\* round(num/den, 3) in thousandths, num >= 0, den > 0
Round3(num, den) == (2000 * num + den) \div (2 * den)

\* --------------------------------------------------------------- data types
Claim(field, text) == [field |-> field, text |-> text]

EvidenceSpan(text, start_idx, end_idx, score) ==
    [text |-> text, start_idx |-> start_idx, end_idx |-> end_idx, score |-> score]

ValidatorResult(validator, verdict, explanation, score) ==
    [validator |-> validator, verdict |-> verdict,
     explanation |-> explanation, score |-> score]

\* Disposition(...): pydantic rejects a verdict outside the Literal set.
Disposition(claim, verdict, evidence, validator, explanation, validator_results, confidence) ==
    IF verdict \in Verdicts
    THEN [raised |-> "none",
          value |-> [claim |-> claim, verdict |-> verdict, evidence |-> evidence,
                     validator |-> validator, explanation |-> explanation,
                     validator_results |-> validator_results,
                     confidence |-> confidence, quality_score |-> None,
                     quality_issues |-> <<>>]]
    ELSE [raised |-> "ValidationError", value |-> None]

\* ------------------------------------------------------- ArbitrationEngine
\* An aggregation config as parsed from the policy.  A conflict rule is kept
\* with the shape of each key, so that malformed rules can be written down:
\*   is_dict, action ("<missing>" when absent), validators_kind
\*   ("list" | "missing" | "not_list"), validators, threshold_kind
\*   ("number" | "missing" | "not_number"), threshold, result_if_above
\*   ("<missing>" when absent).
Missing == "<missing>"

Strategies == {"weighted_voting", "priority_based", "unanimous", "majority", "first_wins"}

DefaultPriority == <<"refuted", "supported", "insufficient_evidence">>

ArbitrationConfig(strategy, weights, priority, rules) ==
    [strategy |-> strategy, default_weights |-> weights,
     verdict_priority |-> priority, conflict_resolution |-> rules]

\* ArbitrationEngine({}) : every key takes its default
DefaultAggregation == ArbitrationConfig("priority_based", <<>>, DefaultPriority, <<>>)

RuleOk(rule) ==
    /\ rule.is_dict
    /\ rule.action # Missing
    /\ rule.validators_kind = "list"
    /\ Len(rule.validators) >= 2
    /\ rule.action = "check_lexical_overlap" =>
          /\ rule.threshold_kind = "number"
          /\ 0 <= rule.threshold /\ rule.threshold <= 1000

\* validate_config: TRUE when the constructor returns, FALSE when it raises
validate_config(cfg) ==
    /\ cfg.strategy \in Strategies
    /\ cfg.strategy = "weighted_voting" =>
          /\ cfg.default_weights # <<>>
          /\ \A i \in DOMAIN cfg.default_weights : cfg.default_weights[i][2] >= 0
    /\ \A i \in DOMAIN cfg.verdict_priority : cfg.verdict_priority[i] \in Verdicts
    /\ \A i \in DOMAIN cfg.conflict_resolution : RuleOk(cfg.conflict_resolution[i])

Words(text) == Range(text)

\* _lexical_overlap as the pair (|intersection|, |union|); (0, 1) stands for 0.0
_lexical_overlap(text1, text2) ==
    IF Words(text1) = {} \/ Words(text2) = {}
    THEN <<0, 1>>
    ELSE <<Cardinality(Words(text1) \cap Words(text2)),
           Cardinality(Words(text1) \cup Words(text2))>>

\* the first result of each named validator, in rule order
RECURSIVE MatchedResults(_, _)
MatchedResults(names, results) ==
    IF names = <<>> THEN <<>>
    ELSE LET hits == {i \in DOMAIN results : results[i].validator = Head(names)}
             rest == MatchedResults(Tail(names), results)
         IN  IF hits = {} THEN rest
             ELSE <<results[CHOOSE i \in hits : \A j \in hits : i <= j]>> \o rest

VerdictsOf(results) == {results[i].verdict : i \in DOMAIN results}

RuleThreshold(rule) == IF rule.threshold_kind = "missing" THEN 600 ELSE rule.threshold

RuleFires(rule, results, evidence) ==
    /\ rule.validators_kind = "list"
    /\ Len(rule.validators) >= 2
    /\ Len(MatchedResults(rule.validators, results)) = Len(rule.validators)
    /\ Cardinality(VerdictsOf(MatchedResults(rule.validators, results))) > 1
    /\ rule.action = "check_lexical_overlap"
    /\ evidence # <<>>

RuleVerdict(rule, claim, results, evidence) ==
    LET overlap == _lexical_overlap(claim.text, evidence[1].text)
        matched == MatchedResults(rule.validators, results)
    IN  IF overlap[1] * 1000 >= RuleThreshold(rule) * overlap[2]
        THEN IF rule.result_if_above = Missing THEN "supported" ELSE rule.result_if_above
        ELSE IF "refuted" \in VerdictsOf(matched) THEN "refuted"
             ELSE "insufficient_evidence"

\* _apply_conflict_rules: [resolved, raised, value]
RECURSIVE _apply_conflict_rules(_, _, _, _)
_apply_conflict_rules(rules, claim, results, evidence) ==
    IF rules = <<>> THEN [resolved |-> FALSE, raised |-> "none", value |-> None]
    ELSE IF RuleFires(Head(rules), results, evidence)
         THEN LET d == Disposition(claim, RuleVerdict(Head(rules), claim, results, evidence),
                                   evidence, "arbitration_engine",
                                   "Conflict resolved via lexical overlap", results, None)
              IN  [resolved |-> TRUE, raised |-> d.raised, value |-> d.value]
         ELSE _apply_conflict_rules(Tail(rules), claim, results, evidence)

\* _calculate_quality_score (two or more results)
_calculate_quality_score(results, final_verdict) ==
    LET agreement_count == Cardinality({i \in DOMAIN results : results[i].verdict = final_verdict})
        overridden == "refuted" \in VerdictsOf(results) /\ final_verdict # "refuted"
    IN  IF Len(results) <= 1 THEN 1000
        ELSE IF overridden THEN Round3(agreement_count * 9, Len(results) * 10)
        ELSE Round3(agreement_count, Len(results))

\* self.weights.get(validator, 1.0); default_weights is the dict's items
Weight(cfg, validator) ==
    LET at == {i \in DOMAIN cfg.default_weights : cfg.default_weights[i][1] = validator}
    IN  IF at = {} THEN 1000 ELSE cfg.default_weights[CHOOSE i \in at : TRUE][2]

\* a confidence that ignores the score
Confidence_ignoring_score(vr) == 1000

\* confidence = vr.score if vr.score is not None else 1.0
Confidence(vr) == IF vr.score # None THEN vr.score ELSE 1000

\* verdict_scores[v] in millionths
VerdictScore(cfg, results, v) ==
    SumSeq([i \in DOMAIN results |->
              IF results[i].verdict = v THEN Weight(cfg, results[i].validator) * Confidence(results[i])
              ELSE 0])

\* max(verdict_scores, key=verdict_scores.get): the first maximum in the
\* dict's insertion order supported, refuted, insufficient_evidence
VotingOrder == <<"supported", "refuted", "insufficient_evidence">>

_weighted_voting(cfg, claim, results, evidence) ==
    LET best == CHOOSE i \in 1..3 :
                   /\ \A j \in 1..3 : VerdictScore(cfg, results, VotingOrder[i])
                                        >= VerdictScore(cfg, results, VotingOrder[j])
                   /\ \A j \in 1..(i - 1) : VerdictScore(cfg, results, VotingOrder[j])
                                        < VerdictScore(cfg, results, VotingOrder[i])
    IN  Disposition(claim, VotingOrder[best], evidence, "arbitration_engine",
                    "Weighted voting result", results, None)

\* the first result, in verdict_priority order, whose verdict is listed
RECURSIVE PriorityPick(_, _)
PriorityPick(priority, results) ==
    IF priority = <<>> THEN 0
    ELSE LET hits == {i \in DOMAIN results : results[i].verdict = Head(priority)}
         IN  IF hits # {} THEN CHOOSE i \in hits : \A j \in hits : i <= j
             ELSE PriorityPick(Tail(priority), results)

\* a priority_based that ranks supported above refuted
_priority_based_supported_first(cfg, claim, results, evidence) ==
    LET k == PriorityPick(<<"supported", "refuted", "insufficient_evidence">>, results)
    IN  Disposition(claim, results[k].verdict, evidence, results[k].validator,
                    results[k].explanation, results, results[k].score)

_priority_based(cfg, claim, results, evidence) ==
    LET k == PriorityPick(cfg.verdict_priority, results)
    IN  IF k # 0
        THEN Disposition(claim, results[k].verdict, evidence, results[k].validator,
                         results[k].explanation, results, results[k].score)
        ELSE Disposition(claim, "insufficient_evidence", evidence, "arbitration_engine",
                         "No validators provided conclusive verdict", results, None)

_unanimous(cfg, claim, results, evidence) ==
    IF Cardinality(VerdictsOf(results)) = 1
    THEN Disposition(claim, results[1].verdict, evidence, "arbitration_engine",
                     "Unanimous verdict", results, None)
    ELSE Disposition(claim, "insufficient_evidence", evidence, "arbitration_engine",
                     "No unanimous verdict", results, None)

VerdictCount(results, v) == Cardinality({i \in DOMAIN results : results[i].verdict = v})

_majority(cfg, claim, results, evidence) ==
    LET winners == {v \in VerdictsOf(results) :
                       \A w \in VerdictsOf(results) : VerdictCount(results, v) >= VerdictCount(results, w)}
    IN  IF Cardinality(winners) = 1
        THEN Disposition(claim, CHOOSE v \in winners : TRUE, evidence, "arbitration_engine",
                         "Majority vote", results, None)
        ELSE Disposition(claim, "insufficient_evidence", evidence, "arbitration_engine",
                         "Tie in majority vote", results, None)

_first_wins(cfg, claim, results, evidence) ==
    Disposition(claim, results[1].verdict, evidence, results[1].validator,
                results[1].explanation, results, results[1].score)

ApplyStrategy(cfg, claim, results, evidence) ==
    CASE cfg.strategy = "weighted_voting" -> _weighted_voting(cfg, claim, results, evidence)
      [] cfg.strategy = "unanimous" -> _unanimous(cfg, claim, results, evidence)
      [] cfg.strategy = "majority" -> _majority(cfg, claim, results, evidence)
      [] cfg.strategy = "first_wins" -> _first_wins(cfg, claim, results, evidence)
      [] OTHER -> _priority_based(cfg, claim, results, evidence)

\* arbitrate: [raised, value]; value is the Disposition when nothing is raised
arbitrate(cfg, claim, results, evidence) ==
    IF results = <<>>
    THEN Disposition(claim, "insufficient_evidence", evidence, "arbitration_engine",
                     "No validator results to arbitrate", <<>>, None)
    ELSE IF Len(results) = 1
    THEN Disposition(claim, results[1].verdict, evidence, results[1].validator,
                     results[1].explanation, results, results[1].score)
    ELSE LET has_conflict == Cardinality(VerdictsOf(results)) > 1
             resolved == IF has_conflict /\ cfg.conflict_resolution # <<>>
                         THEN _apply_conflict_rules(cfg.conflict_resolution, claim, results, evidence)
                         ELSE [resolved |-> FALSE, raised |-> "none", value |-> None]
             d == ApplyStrategy(cfg, claim, results, evidence)
         IN  IF resolved.resolved
             THEN [raised |-> resolved.raised, value |-> resolved.value]
             ELSE IF d.raised # "none" THEN d
             ELSE [raised |-> "none",
                   value |-> [d.value EXCEPT !.quality_score =
                                 _calculate_quality_score(results, d.value.verdict)]]

\* ------------------------------------------------- transcripts, documents
Transcripts == 1..MaxTranscript

BaseTexts ==
    << <<"patient", "reports", "chest", "pain">>,
       <<"patient", "denies", "pain">>,
       <<"gave", "ibuprofen", "today">>,
       <<"no", "fever">> >>

\* the words of transcript t; distinct transcripts are distinct texts
TranscriptText(t) == BaseTexts[(t % Len(BaseTexts)) + 1] \o <<"t" \o ToString(t)>>

\* hash(transcript): the built-in string hash maps the unbounded set of
\* transcripts onto machine words, so distinct transcripts can share a value
hash(t) == t \div 2

\* schema: the fields in declaration order, all single_value, with the
\* field names as paths; both fields are required
FieldsOrder == <<"chief_complaint", "plan">>
Fields == Range(FieldsOrder)
RequiredFields == {"chief_complaint", "plan"}

FieldText == [chief_complaint |-> <<"chest", "pain">>, plan |-> <<"gave", "ibuprofen">>]

\* a document gives each field its text or nothing (<<>>)
\* a plan that states a quantity and the day
DosedPlan == <<"gave", "2", "ibuprofen", "today">>

Documents == {d \in [Fields -> {<<>>, DosedPlan} \cup Range(FieldText)] :
                 /\ d.chief_complaint \in {<<>>, FieldText.chief_complaint}
                 /\ d.plan \in {<<>>, FieldText.plan, DosedPlan}}

\* extract_claims_configurable: one claim per non-empty field, schema order
RECURSIVE ExtractFrom(_, _)
ExtractFrom(fields, summary) ==
    IF fields = <<>> THEN <<>>
    ELSE (IF summary[Head(fields)] = <<>> THEN <<>>
          ELSE <<Claim(Head(fields), summary[Head(fields)])>>)
         \o ExtractFrom(Tail(fields), summary)

extract_claims_configurable(summary) == ExtractFrom(FieldsOrder, summary)

\* -------------------------------------------------------------- retrieval
RegisteredRetrievers == {"bm25"}

\* RetrieverRegistry.create: [raised, value]
create_retriever(name, transcript, config) ==
    IF name \in RegisteredRetrievers
    THEN [raised |-> "none", value |-> [name |-> name, transcript |-> transcript]]
    ELSE [raised |-> "ValueError", value |-> None]

\* raw BM25 score of a chunk in tenths (rank_bm25 is an external library; the
\* score grows with the number of claim terms the chunk holds)
BM25Score(chunk, claim_tokens) == 25 * Cardinality(Range(chunk) \cap Range(claim_tokens))

\* BM25Retriever.retrieve on a transcript shorter than chunk_size: one chunk,
\* the context window clamped to the whole transcript
retrieve(retriever, claim, top_k) ==
    LET text == TranscriptText(retriever.transcript)
        score == BM25Score(text, claim)
    IN  IF text = <<>> \/ claim = <<>> \/ top_k < 1 \/ score < 1 THEN <<>>
        ELSE <<EvidenceSpan(text, 0, Len(text), Min(1000, score * 10))>>

\* ------------------------------------------------------------- validators
\* the registered validators the policies of the model name
RegisteredValidators == {"always_true", "bm25_validator", "nli_validator"}

NliOutcomes == Verdicts \cup {"raise"}

\* a policy entry: a bare name, or a single-key map {name: config}
ValidatorEntry(form, name) == [form |-> form, name |-> name]

BM25Validate(evidence) ==
    LET strong == {i \in DOMAIN evidence : evidence[i].score >= 300}
    IN  IF evidence = <<>> THEN "insufficient_evidence"
        ELSE IF Cardinality(strong) >= 1 THEN "supported"
        ELSE "insufficient_evidence"

\* create_validator(name).validate(claim, evidence, transcript):
\* a verdict, or "raise".  nli is the classifier's answer per field.
ValidatorOutcome(name, claim, evidence, nli) ==
    IF name \notin RegisteredValidators THEN "raise"
    ELSE CASE name = "always_true" -> "supported"
           [] name = "bm25_validator" -> BM25Validate(evidence)
           [] name = "nli_validator" ->
                 IF evidence = <<>> THEN "insufficient_evidence" ELSE nli[claim.field]

\* a step of the orchestrator, in the order it takes them: validate (the pass
\* of the validator loop for the k-th configured validator of a claim),
\* arbitrate (a claim's results), analyze (the pass of the quality loop for
\* the k-th configured module on a claim's disposition); raised tells whether
\* the step's call raised
Event(op, claim, k, raised) == [op |-> op, claim |-> claim, idx |-> k, raised |-> raised]

\* a validator loop whose except branch blames the claim
RunValidator_refuting(entry, claim, evidence, nli) ==
    LET outcome == ValidatorOutcome(entry.name, claim, evidence, nli)
    IN  IF outcome = "raise"
        THEN ValidatorResult(entry.name, "refuted", "Validator error", None)
        ELSE ValidatorResult(entry.name, outcome, "validator explanation", None)

\* one pass of the try/except in the validator loop
RunValidator(entry, claim, evidence, nli) ==
    LET outcome == ValidatorOutcome(entry.name, claim, evidence, nli)
    IN  IF outcome = "raise"
        THEN ValidatorResult(entry.name, "insufficient_evidence", "Validator error", None)
        ELSE ValidatorResult(entry.name, outcome, "validator explanation", None)

\* a validator loop whose except branch records nothing
RECURSIVE RunValidators_skipping(_, _, _, _, _)
RunValidators_skipping(entries, k, claim, evidence, nli) ==
    IF k > Len(entries) THEN [results |-> <<>>, trace |-> <<>>]
    ELSE LET rest == RunValidators_skipping(entries, k + 1, claim, evidence, nli)
             failed == ValidatorOutcome(entries[k].name, claim, evidence, nli) = "raise"
         IN  [results |-> (IF failed THEN <<>>
                           ELSE <<RunValidator(entries[k], claim, evidence, nli)>>) \o rest.results,
              trace |-> <<Event("validate", claim, k, failed)>> \o rest.trace]

\* the validator loop of one claim: [results, trace]
RECURSIVE RunValidators(_, _, _, _, _)
RunValidators(entries, k, claim, evidence, nli) ==
    IF k > Len(entries) THEN [results |-> <<>>, trace |-> <<>>]
    ELSE LET rest == RunValidators(entries, k + 1, claim, evidence, nli)
         IN  [results |-> <<RunValidator(entries[k], claim, evidence, nli)>> \o rest.results,
              trace |-> <<Event("validate", claim, k,
                                ValidatorOutcome(entries[k].name, claim, evidence, nli) = "raise")>>
                        \o rest.trace]

\* ----------------------------------------------------------------- policy
Policy(validators, aggregation, quality_modules) ==
    [validators |-> validators, retriever |-> "bm25", retriever_config |-> "",
     aggregation |-> aggregation, quality_modules |-> quality_modules,
     quality_confidence_penalty |-> 900, max_evidence_spans |-> 5,
     scoring_method |-> "quality_weighted"]

\* a lookup that hands the validators back last to first
get_validators_for_field_reversed(policy, field) ==
    [k \in DOMAIN policy.validators[field] |->
        policy.validators[field][Len(policy.validators[field]) + 1 - k]]

\* Config.get_validators_for_field
get_validators_for_field(policy, field) == policy.validators[field]

\* ------------------------------------------------------- claims, one by one
\* the "for claim in claims" loop from claim i on: [raised, dispositions, trace]
RECURSIVE ProcessClaims(_, _, _, _, _)
ProcessClaims(policy, retriever, claims, i, nli) ==
    IF i > Len(claims) THEN [raised |-> "none", dispositions |-> <<>>, trace |-> <<>>]
    ELSE
    Bind(retrieve(retriever, claims[i].text, policy.max_evidence_spans), LAMBDA evidence :
    Bind(RunValidators(get_validators_for_field(policy, claims[i].field), 1,
                       claims[i], evidence, nli), LAMBDA run :
       IF run.results = <<>>
       THEN Bind(ProcessClaims(policy, retriever, claims, i + 1, nli), LAMBDA rest :
               [rest EXCEPT !.trace = run.trace \o @])
       ELSE
       Bind(arbitrate(policy.aggregation, claims[i], run.results, evidence), LAMBDA final :
          IF final.raised # "none"
          THEN [raised |-> final.raised, dispositions |-> <<>>,
                trace |-> run.trace \o <<Event("arbitrate", claims[i], 0, TRUE)>>]
          ELSE
          Bind(ProcessClaims(policy, retriever, claims, i + 1, nli), LAMBDA rest :
             [raised |-> rest.raised,
              dispositions |-> IF rest.raised # "none" THEN <<>>
                               ELSE <<final.value>> \o rest.dispositions,
              trace |-> run.trace \o <<Event("arbitrate", claims[i], 0, FALSE)>>
                        \o rest.trace]))))

\* ---------------------------------------------------------- quality stage
\* the two shipped modules, and three registered by the application: one whose
\* analyze raises, one whose analyze returns issues with a quality_score that
\* is no number, one whose analyze returns no issue and 1.0
RegisteredQualityModules ==
    {"temporal_numeric_drift", "semantic_quality",
     "raising_module", "unscored_module", "neutral_module"}

\* a quality_score that is no number (None, a string)
NotANumber == -2

TemporalLexicon == {"today", "yesterday", "tonight", "tomorrow", "recently"}

\* the digit-form numbers of the texts
NumberTokens == {"2", "4"}

\* max_issues of a quality module, by default
MaxIssues == 3

QualityIssue(type, severity, detail) == [type |-> type, severity |-> severity, detail |-> detail]

\* ScorePenalty.from_string(severity).value, in thousandths
ScorePenalty(severity) ==
    CASE severity = "high" -> 500
      [] severity = "medium" -> 800
      [] severity = "low" -> 900

\* a set as a list; the order a set is iterated in is not specified
RECURSIVE SetToSeq(_)
SetToSeq(S) ==
    IF S = {} THEN <<>>
    ELSE LET x == CHOOSE x \in S : TRUE IN <<x>> \o SetToSeq(S \ {x})

\* a temporal check that reports nothing
_detect_temporal_drift_silent(claim, evidence) == <<>>

\* _detect_temporal_drift: one issue per temporal phrase of the evidence that
\* the claim lacks
_detect_temporal_drift(claim, evidence) ==
    LET evidence_temporal == Words(evidence) \cap TemporalLexicon
        missing == SetToSeq({t \in evidence_temporal : t \notin Words(claim)})
    IN  [i \in DOMAIN missing |-> QualityIssue("temporal_drift", "medium", missing[i])]

\* the bare numbers of a text, in order, without repeats
RECURSIVE BareNumbers(_)
BareNumbers(text) ==
    IF text = <<>> THEN <<>>
    ELSE LET rest == BareNumbers(SubSeq(text, 1, Len(text) - 1))
             last == text[Len(text)]
         IN  IF last \in NumberTokens /\ last \notin Range(rest) THEN Append(rest, last) ELSE rest

\* _detect_numeric_drift_multi_evidence for texts whose numbers carry no
\* unit, percent or currency sign: each number of the claim has to occur in
\* some span of relevance above 0.5
_detect_numeric_drift_multi_evidence(claim, evidence_spans) ==
    LET claim_bare == BareNumbers(claim)
        high_relevance_evidence == SelectSeq(evidence_spans, LAMBDA ev : ev.score > 500)
        found(n) == \E i \in DOMAIN high_relevance_evidence :
                       n \in Words(high_relevance_evidence[i].text)
        unfound == SelectSeq(claim_bare, LAMBDA n : ~found(n))
    IN  IF claim_bare = <<>> \/ high_relevance_evidence = <<>> THEN <<>>
        ELSE [i \in DOMAIN unfound |->
                 QualityIssue("insufficient_numeric_evidence", "medium", unfound[i])]

\* the product of the penalties of the issues, in thousandths
RECURSIVE PenaltyProduct(_)
PenaltyProduct(issues) ==
    IF issues = <<>> THEN 1000
    ELSE (PenaltyProduct(SubSeq(issues, 1, Len(issues) - 1))
             * ScorePenalty(issues[Len(issues)].severity)) \div 1000

\* TemporalNumericDriftModule.should_analyze, min_quality_score = 0.95
should_analyze(disposition) ==
    disposition.quality_score = None \/ disposition.quality_score < 950

\* TemporalNumericDriftModule.analyze, check_temporal and check_numeric on
DriftAnalyze(disposition) ==
    LET issues == _detect_temporal_drift(disposition.claim.text, disposition.evidence[1].text)
                  \o _detect_numeric_drift_multi_evidence(disposition.claim.text,
                                                          disposition.evidence)
        kept == SubSeq(issues, 1, Min(MaxIssues, Len(issues)))
    IN  IF ~should_analyze(disposition) \/ disposition.evidence = <<>>
        THEN [issues |-> <<>>, quality_score |-> 1000]
        ELSE [issues |-> kept, quality_score |-> PenaltyProduct(kept)]

\* create_quality_module(name).analyze(disposition): [raised, issues, quality_score]
Analyze(name, disposition) ==
    IF name \notin RegisteredQualityModules
    THEN [raised |-> "ValueError", issues |-> <<>>, quality_score |-> 1000]
    ELSE CASE name = "temporal_numeric_drift" -> [raised |-> "none"] @@ DriftAnalyze(disposition)
           [] name = "raising_module" ->
                 [raised |-> "RuntimeError", issues |-> <<>>, quality_score |-> 1000]
           [] name = "unscored_module" ->
                 [raised |-> "none", issues |-> <<QualityIssue("omission", "low", "detail")>>,
                  quality_score |-> NotANumber]
           [] OTHER -> [raised |-> "none", issues |-> <<>>, quality_score |-> 1000]

\* whether the pass of the quality loop for this module ends in the except
\* branch: the lookup or analyze raised, or "module_quality_score < 1.0" did
ModuleRaised(name, disposition) ==
    \/ Analyze(name, disposition).raised # "none"
    \/ Analyze(name, disposition).quality_score = NotANumber

\* a pass that multiplies by the factor whatever it is
ApplyModule_always_scoring(name, disposition) ==
    LET result == Analyze(name, disposition)
        current == IF disposition.quality_score \in {None, 0} THEN 1000
                   ELSE disposition.quality_score
    IN  IF result.raised # "none" THEN disposition
        ELSE IF result.quality_score = NotANumber
        THEN [disposition EXCEPT !.quality_issues = @ \o result.issues]
        ELSE [disposition EXCEPT
                !.quality_issues = @ \o result.issues,
                !.quality_score = (current * result.quality_score) \div 1000]

\* one pass of the try/except in the quality-module loop
ApplyModule(name, disposition) ==
    LET result == Analyze(name, disposition)
        current == IF disposition.quality_score \in {None, 0} THEN 1000
                   ELSE disposition.quality_score
    IN  IF result.raised # "none" THEN disposition
        ELSE IF result.quality_score = NotANumber
        THEN [disposition EXCEPT !.quality_issues = @ \o result.issues]
        ELSE [disposition EXCEPT
                !.quality_issues = @ \o result.issues,
                !.quality_score = IF result.quality_score < 1000
                                  THEN (current * result.quality_score) \div 1000
                                  ELSE @]

\* the "for module_config in quality_modules_config" loop: [disposition, trace]
RECURSIVE ApplyModules(_, _, _)
ApplyModules(modules, k, disposition) ==
    IF k > Len(modules) THEN [disposition |-> disposition, trace |-> <<>>]
    ELSE
    Bind(ApplyModule(modules[k], disposition), LAMBDA analyzed :
    Bind(ApplyModules(modules, k + 1, analyzed), LAMBDA rest :
       [rest EXCEPT !.trace = <<Event("analyze", disposition.claim, k,
                                      ModuleRaised(modules[k], disposition))>>
                              \o @]))

\* the confidence penalty for drift issues, after the modules of a disposition
ConfidencePenalty(policy, disposition) ==
    LET has_drift == \E i \in DOMAIN disposition.quality_issues :
                        disposition.quality_issues[i].type \in {"temporal_drift", "numeric_drift"}
        original == IF disposition.confidence \in {None, 0} THEN 1000
                    ELSE disposition.confidence
    IN  IF has_drift
        THEN [disposition EXCEPT !.confidence =
                 (original * policy.quality_confidence_penalty) \div 1000]
        ELSE disposition

\* the "for disposition in dispositions" loop: [dispositions, trace]
RECURSIVE QualityStage(_, _, _)
QualityStage(policy, dispositions, i) ==
    IF i > Len(dispositions) THEN [dispositions |-> <<>>, trace |-> <<>>]
    ELSE
    Bind(ApplyModules(policy.quality_modules, 1, dispositions[i]), LAMBDA run :
    Bind(QualityStage(policy, dispositions, i + 1), LAMBDA rest :
       [dispositions |-> <<ConfidencePenalty(policy, run.disposition)>> \o rest.dispositions,
        trace |-> run.trace \o rest.trace]))

\* ---------------------------------------------------------------- scoring
RoundDiv(num, den) == (2 * num + den) \div (2 * den)

\* calculate_completeness_score as the pair (present, total); (1, 1) is 1.0
calculate_completeness_score(summary) ==
    IF RequiredFields = {} THEN <<1, 1>>
    ELSE <<Cardinality({f \in RequiredFields : summary[f] # <<>>}), Cardinality(RequiredFields)>>

ClaimScores(policy, dispositions) ==
    [i \in DOMAIN dispositions |->
        IF dispositions[i].verdict # "supported" THEN 0
        ELSE IF policy.scoring_method = "simple" \/ dispositions[i].quality_score = None THEN 1000
        ELSE dispositions[i].quality_score]

\* _calculate_overall_score, in thousandths
_calculate_overall_score(policy, dispositions, summary) ==
    LET c == calculate_completeness_score(summary)
        n == Len(dispositions)
    IN  IF n = 0 THEN 0
        ELSE Max(0, Min(1000,
                 RoundDiv(7 * SumSeq(ClaimScores(policy, dispositions)) * c[2] + 3000 * c[1] * n,
                          10 * n * c[2])))

\* Checker._calculate_quality_score, in thousandths
ReportQualityScore(dispositions) ==
    LET scored == SelectSeq(dispositions, LAMBDA d : d.quality_score # None)
    IN  IF scored = <<>> THEN 1000
        ELSE RoundDiv(SumSeq([i \in DOMAIN scored |-> scored[i].quality_score]), Len(scored))

MedicalKeywords == <<"pain", "fever">>

\* detect_missing_claims: the keywords the transcript holds and the document lacks
detect_missing_claims(transcript, summary) ==
    SelectSeq(MedicalKeywords,
              LAMBDA w : /\ w \in Words(TranscriptText(transcript))
                         /\ \A f \in Fields : w \notin Words(summary[f]))

VerificationReport(dispositions, summary, overall_score, quality_score, missing_claims) ==
    [dispositions |-> dispositions, source_fields |-> summary,
     overall_score |-> overall_score, quality_score |-> quality_score,
     missing_claims |-> missing_claims, issues |-> <<>>]

\* --------------------------------------------------------- retriever cache
\* A Checker: [cache_retrievers, max_cache_size, _retriever_cache,
\* _cache_hits, _cache_misses].  _retriever_cache is the dict as the sequence
\* of its (key, retriever) items in insertion order.
Checker(cache_retrievers, max_cache_size) ==
    [cache_retrievers |-> cache_retrievers, max_cache_size |-> max_cache_size,
     _retriever_cache |-> <<>>, _cache_hits |-> 0, _cache_misses |-> 0]

CacheKeys(cache) == {cache[i].key : i \in DOMAIN cache}

CacheGet(cache, key) == cache[CHOOSE i \in DOMAIN cache : cache[i].key = key].retriever

CacheKey(transcript, retriever_name, retriever_config) ==
    <<hash(transcript), retriever_name, retriever_config>>

\* an eviction that removes nothing
EvictNothing(cache) == cache

\* next(iter(cache)) and del cache[oldest_key]; iter of an empty dict raises
EvictOldest(cache) == Tail(cache)

\* _get_or_create_retriever: [self, raised, retriever]
_get_or_create_retriever(self, transcript, retriever_name, retriever_config) ==
    LET made == create_retriever(retriever_name, transcript, retriever_config)
        cache_key == CacheKey(transcript, retriever_name, retriever_config)
        cache == self._retriever_cache
        missed == [self EXCEPT !._cache_misses = @ + 1]
        item == [key |-> cache_key, retriever |-> made.value]
    IN  IF ~self.cache_retrievers
        THEN [self |-> self, raised |-> made.raised, retriever |-> made.value]
        ELSE IF cache_key \in CacheKeys(cache)
        THEN [self |-> [self EXCEPT !._cache_hits = @ + 1], raised |-> "none",
              retriever |-> CacheGet(cache, cache_key)]
        ELSE IF made.raised # "none"
        THEN [self |-> missed, raised |-> made.raised, retriever |-> None]
        ELSE IF Len(cache) >= self.max_cache_size
        THEN IF cache = <<>>
             THEN [self |-> missed, raised |-> "StopIteration", retriever |-> None]
             ELSE [self |-> [missed EXCEPT !._retriever_cache = Append(EvictOldest(cache), item)],
                   raised |-> "none", retriever |-> made.value]
        ELSE [self |-> [missed EXCEPT !._retriever_cache = Append(cache, item)],
              raised |-> "none", retriever |-> made.value]

\* a clear_cache that forgets the counters
clear_cache_keeping_counters(self) == [self EXCEPT !._retriever_cache = <<>>]

\* clear_cache
clear_cache(self) ==
    [self EXCEPT !._retriever_cache = <<>>, !._cache_hits = 0, !._cache_misses = 0]

\* get_cache_stats
get_cache_stats(self) ==
    LET total_requests == self._cache_hits + self._cache_misses
    IN  [cache_size |-> Len(self._retriever_cache),
         max_cache_size |-> self.max_cache_size,
         cache_hits |-> self._cache_hits,
         cache_misses |-> self._cache_misses,
         hit_rate |-> IF total_requests > 0 THEN Round3(self._cache_hits, total_requests) ELSE 0]

\* ----------------------------------------------------------- verify_summary
NoReport == [dispositions |-> <<>>, source_fields |-> [f \in Fields |-> <<>>], overall_score |-> None,
             quality_score |-> None, missing_claims |-> <<>>, issues |-> <<>>]

\* verify_summary: [self, raised, report, trace, arbitrated]; report is
\* NoReport when the call raises; arbitrated is the local list dispositions as
\* it stands when the quality stage begins
verify_summary(self, policy, transcript, summary, nli) ==
    Bind(_get_or_create_retriever(self, transcript, policy.retriever, policy.retriever_config),
         LAMBDA got :
       IF got.raised # "none"
       THEN [self |-> got.self, raised |-> got.raised, retriever |-> None,
             report |-> NoReport, trace |-> <<>>, arbitrated |-> <<>>]
       ELSE
       Bind(ProcessClaims(policy, got.retriever, extract_claims_configurable(summary), 1, nli),
            LAMBDA run :
          IF run.raised # "none"
          THEN [self |-> got.self, raised |-> run.raised, retriever |-> got.retriever,
                report |-> NoReport, trace |-> run.trace, arbitrated |-> <<>>]
          ELSE
          Bind(QualityStage(policy, run.dispositions, 1), LAMBDA quality :
             [self |-> got.self, raised |-> "none", retriever |-> got.retriever,
              report |-> VerificationReport(quality.dispositions, summary,
                            _calculate_overall_score(policy, quality.dispositions, summary),
                            ReportQualityScore(quality.dispositions),
                            detect_missing_claims(transcript, summary)),
              trace |-> run.trace \o quality.trace,
              arbitrated |-> run.dispositions])))

\* ------------------------------------------------------------ the policies
Name(n) == ValidatorEntry("name", n)
WithConfig(n) == ValidatorEntry("map", n)

OverlapRule(validators, threshold, result_if_above) ==
    [is_dict |-> TRUE, action |-> "check_lexical_overlap",
     validators_kind |-> "list", validators |-> validators,
     threshold_kind |-> "number", threshold |-> threshold,
     result_if_above |-> result_if_above]

\* the shipped shape: one lexical validator per field
DefaultPolicy ==
    Policy([chief_complaint |-> <<Name("bm25_validator")>>,
            plan |-> <<WithConfig("always_true"), Name("bm25_validator")>>],
           DefaultAggregation, <<"temporal_numeric_drift">>)

\* an entailment classifier next to the lexical validator; no validator for plan
NliPolicy ==
    Policy([chief_complaint |-> <<Name("bm25_validator"), Name("nli_validator")>>,
            plan |-> <<>>],
           DefaultAggregation, <<"no_such_module", "temporal_numeric_drift">>)

\* a validator that is not registered, a conflict rule, majority vote
FaultyPolicy ==
    Policy([chief_complaint |-> <<Name("no_such_validator"), Name("bm25_validator"),
                                  WithConfig("always_true")>>,
            plan |-> <<Name("always_true"), Name("no_such_validator")>>],
           ArbitrationConfig("majority", <<>>, DefaultPriority,
               <<OverlapRule(<<"bm25_validator", "always_true">>, 600, Missing)>>),
           <<"temporal_numeric_drift", "semantic_quality">>)

\* two validators that have to agree; application modules around the shipped one
UnanimousPolicy ==
    Policy([chief_complaint |-> <<Name("bm25_validator")>>,
            plan |-> <<Name("always_true"), Name("nli_validator")>>],
           ArbitrationConfig("unanimous", <<>>, DefaultPriority, <<>>),
           <<"neutral_module", "raising_module", "temporal_numeric_drift", "unscored_module">>)

Policies == {DefaultPolicy, NliPolicy, FaultyPolicy, UnanimousPolicy}

CallBound(p) == IF p = DefaultPolicy THEN MaxCalls ELSE MaxPipelineCalls

\* the fields whose claim reaches the entailment classifier
NliFields(p, summary) ==
    {f \in Fields : /\ summary[f] # <<>>
                    /\ \E i \in DOMAIN p.validators[f] : p.validators[f][i].name = "nli_validator"}

\* ------------------------------------------------------------------- state
VARIABLES
    policy,     \* the policies the Checkers were constructed with
    checker,    \* the Checker
    twin,       \* an otherwise identical Checker with cache_retrievers = False
    out,        \* the last call on checker and what it returned or raised
    twin_out,   \* the same call on twin
    cleared,    \* the cache keys the last clear_cache dropped
    engine,     \* a stand-alone ArbitrationEngine: its config and state
    arb,        \* the last arbitrate call on engine
    unit        \* a stand-alone component: its arguments and what the call returned

vars == <<policy, checker, twin, out, twin_out, cleared, engine, arb, unit>>

Idle(op) == [op |-> op, transcript |-> 0, raised |-> "none", retriever |-> None,
             report |-> NoReport, trace |-> <<>>, arbitrated |-> <<>>]

NoEngine == [state |-> "none", config |-> DefaultAggregation]
NoUnit == [called |-> FALSE]
NoArb == [called |-> FALSE, claim |-> Claim("", <<>>), results |-> <<>>, evidence |-> <<>>,
          raised |-> "none", value |-> None]

\* Checker.__init__: what it raises.  It builds the Config and the
\* ArbitrationEngine; no validator, retriever or quality module is created
\* or looked up there.
__init__(policies) ==
    IF validate_config(policies.aggregation) THEN "none" ELSE "ValueError"

Init ==
    /\ policy \in Policies
    /\ __init__(policy) = "none"
    /\ \E cache_retrievers \in BOOLEAN, max_cache_size \in 0..MaxCacheSize :
          /\ checker = Checker(cache_retrievers, max_cache_size)
          /\ twin = Checker(FALSE, max_cache_size)
    /\ out = Idle("init")
    /\ twin_out = Idle("init")
    /\ cleared = {}
    /\ engine = NoEngine
    /\ arb = NoArb
    /\ unit = NoUnit

Called(r, transcript) ==
    [op |-> "verify_summary", transcript |-> transcript, raised |-> r.raised,
     retriever |-> r.retriever, report |-> r.report, trace |-> r.trace,
     arbitrated |-> r.arbitrated]

\* checker.verify_summary(transcript, summary), and the same call on twin
VerifySummary(transcript, summary, nli) ==
    /\ checker._cache_hits + checker._cache_misses < CallBound(policy)
    /\ \E r \in {verify_summary(checker, policy, transcript, summary, nli)} :
          checker' = r.self /\ out' = Called(r, transcript)
    /\ \E r \in {verify_summary(twin, policy, transcript, summary, nli)} :
          twin' = r.self /\ twin_out' = Called(r, transcript)
    /\ UNCHANGED <<policy, cleared, engine, arb, unit>>

\* checker.clear_cache(), and the same call on twin
ClearCache ==
    /\ out.op # "init"
    /\ checker' = clear_cache(checker)
    /\ twin' = clear_cache(twin)
    /\ out' = Idle("clear_cache")
    /\ twin_out' = Idle("clear_cache")
    /\ cleared' = CacheKeys(checker._retriever_cache)
    /\ UNCHANGED <<policy, engine, arb, unit>>

Next ==
    \/ \E transcript \in Transcripts, summary \in Documents :
          \E nli \in [NliFields(policy, summary) -> NliOutcomes] :
             VerifySummary(transcript, summary, nli)
    \/ ClearCache

Spec == Init /\ [][Next]_vars
\* ------------------------------------------- a stand-alone ArbitrationEngine
ValidatorNames ==
    <<"bm25_validator", "nli_validator", "always_true", "regex_validator", "negation_refuter">>

Scores == {None, 500}

ResultLists ==
    UNION { { [i \in 1..n |-> ValidatorResult(ValidatorNames[i], f[i][1],
                                              "validator explanation", f[i][2])] :
                f \in [1..n -> Verdicts \X Scores] } : n \in 0..MaxResults }

ArbClaim == Claim("chief_complaint", <<"chest", "pain">>)

\* what a retriever returns for top_k = MaxEvidence: MaxEvidence spans, ranked
ManySpans ==
    [i \in 1..MaxEvidence |-> EvidenceSpan(<<"chest", "pain">>, 3 * i, 3 * i + 2, 900 - 10 * i)]

ArbEvidence ==
    { <<>>,
      <<EvidenceSpan(<<"chest", "pain">>, 0, 2, 900)>>,
      <<EvidenceSpan(<<"patient", "denies", "pain">>, 0, 3, 400)>>,
      ManySpans }

BadRule(is_dict, action, validators_kind, validators, threshold_kind, threshold) ==
    [is_dict |-> is_dict, action |-> action,
     validators_kind |-> validators_kind, validators |-> validators,
     threshold_kind |-> threshold_kind, threshold |-> threshold,
     result_if_above |-> Missing]

Pair == <<"bm25_validator", "nli_validator">>

ValidConfigs ==
    { ArbitrationConfig(s, <<>>, DefaultPriority, <<>>) : s \in Strategies \ {"weighted_voting"} }
    \cup
    { ArbitrationConfig("weighted_voting", <<<<"bm25_validator", 500>>, <<"nli_validator", 2000>>>>,
                        DefaultPriority, <<>>),
      ArbitrationConfig("weighted_voting", <<<<"bm25_validator", 0>>>>, DefaultPriority, <<>>),
      ArbitrationConfig("weighted_voting", [i \in DOMAIN ValidatorNames |-> <<ValidatorNames[i], 0>>],
                        DefaultPriority, <<>>),
      ArbitrationConfig("priority_based", <<>>,
                        <<"supported", "refuted", "insufficient_evidence">>, <<>>),
      ArbitrationConfig("priority_based", <<>>, <<"supported">>, <<>>),
      ArbitrationConfig("priority_based", <<>>, <<>>, <<>>),
      ArbitrationConfig("priority_based", <<>>, DefaultPriority,
                        <<OverlapRule(Pair, 600, Missing)>>),
      ArbitrationConfig("priority_based", <<>>, DefaultPriority,
                        <<OverlapRule(Pair, 0, "refuted")>>),
      ArbitrationConfig("priority_based", <<>>, DefaultPriority,
                        <<OverlapRule(Pair, 0, "maybe")>>),
      ArbitrationConfig("first_wins", <<>>, DefaultPriority,
                        <<BadRule(TRUE, "escalate", "list", Pair, "missing", 0),
                          OverlapRule(<<"nli_validator", "always_true">>, 1000, "supported")>>) }

InvalidConfigs ==
    { ArbitrationConfig("consensus", <<>>, DefaultPriority, <<>>),
      ArbitrationConfig("weighted_voting", <<>>, DefaultPriority, <<>>),
      ArbitrationConfig("weighted_voting", <<<<"bm25_validator", -500>>>>, DefaultPriority, <<>>),
      ArbitrationConfig("priority_based", <<>>, <<"refuted", "unknown">>, <<>>) }
    \cup
    { ArbitrationConfig("priority_based", <<>>, DefaultPriority, <<rule>>) :
        rule \in { BadRule(FALSE, Missing, "missing", <<>>, "missing", 0),
                   BadRule(TRUE, Missing, "list", Pair, "number", 600),
                   BadRule(TRUE, "check_lexical_overlap", "missing", <<>>, "number", 600),
                   BadRule(TRUE, "check_lexical_overlap", "not_list", <<>>, "number", 600),
                   BadRule(TRUE, "check_lexical_overlap", "list", <<"bm25_validator">>, "number", 600),
                   BadRule(TRUE, "check_lexical_overlap", "list", Pair, "missing", 0),
                   BadRule(TRUE, "check_lexical_overlap", "list", Pair, "not_number", 0),
                   BadRule(TRUE, "check_lexical_overlap", "list", Pair, "number", 1500),
                   BadRule(TRUE, "check_lexical_overlap", "list", Pair, "number", -100) } }

ArbConfigs == ValidConfigs \cup InvalidConfigs

InitArb ==
    /\ policy = DefaultPolicy
    /\ checker = Checker(TRUE, MaxCacheSize)
    /\ twin = Checker(FALSE, MaxCacheSize)
    /\ out = Idle("init")
    /\ twin_out = Idle("init")
    /\ cleared = {}
    /\ engine \in {[state |-> "new", config |-> c] : c \in ArbConfigs}
    /\ arb = NoArb
    /\ unit = NoUnit

\* ArbitrationEngine(config): __init__ ends with validate_config()
Construct ==
    /\ engine.state = "new"
    /\ engine' = [engine EXCEPT !.state = IF validate_config(engine.config)
                                          THEN "ready" ELSE "ValueError"]
    /\ UNCHANGED <<policy, checker, twin, out, twin_out, cleared, arb, unit>>

\* engine.arbitrate(claim, validator_results, evidence).  arbitrate reads the
\* engine and writes nothing, so each engine is followed through one call.
Arbitrate(claim, results, evidence) ==
    /\ engine.state = "ready"
    /\ ~arb.called
    /\ \E r \in {arbitrate(engine.config, claim, results, evidence)} :
           arb' = [called |-> TRUE, claim |-> claim, results |-> results,
                   evidence |-> evidence, raised |-> r.raised, value |-> r.value]
    /\ UNCHANGED <<policy, checker, twin, out, twin_out, cleared, engine, unit>>

NextArb ==
    \/ Construct
    \/ \E results \in ResultLists, evidence \in ArbEvidence :
          Arbitrate(ArbClaim, results, evidence)

SpecArb == InitArb /\ [][NextArb]_vars
\* ------------------------------------------------ stand-alone components
\* the Checker and the engine at rest while one component is called alone
AtRest ==
    /\ policy = DefaultPolicy
    /\ checker = Checker(TRUE, MaxCacheSize)
    /\ twin = Checker(FALSE, MaxCacheSize)
    /\ out = Idle("init")
    /\ twin_out = Idle("init")
    /\ cleared = {}
    /\ engine = NoEngine
    /\ arb = NoArb

\* ------------------------------------------------- BM25Retriever, by character
MaxChars == 4
MaxChunkSize == 3
MaxContext == 2
MaxTopK == 2

\* transcripts as strings of characters: a letter and the blank
Chars == {"a", " "}
Strings == UNION {[1..n -> Chars] : n \in 0..MaxChars}

\* s[i:j] for 0 <= i
Slice(s, i, j) == SubSeq(s, i + 1, Min(j, Len(s)))

RECURSIVE lstrip(_)
lstrip(s) == IF s # <<>> /\ Head(s) = " " THEN lstrip(Tail(s)) ELSE s

RECURSIVE rstrip(_)
rstrip(s) == IF s # <<>> /\ s[Len(s)] = " " THEN rstrip(SubSeq(s, 1, Len(s) - 1)) ELSE s

\* str.strip()
strip(s) == rstrip(lstrip(s))

\* the while loop of _build_index from pos on: the (chunk_text, chunk_pos) pairs
RECURSIVE Chunks(_, _, _, _)
Chunks(transcript, chunk_size, step_size, pos) ==
    IF pos >= Len(transcript) THEN <<>>
    ELSE LET chunk_end == Min(pos + chunk_size, Len(transcript))
             chunk_text == strip(Slice(transcript, pos, chunk_end))
         IN  (IF chunk_text # <<>> THEN <<[text |-> chunk_text, pos |-> pos]>> ELSE <<>>)
             \o (IF chunk_end >= Len(transcript) THEN <<>>
                 ELSE Chunks(transcript, chunk_size, step_size, pos + step_size))

\* BM25Retriever._build_index: chunks and chunk_positions, no index (<<>>)
\* for an empty transcript or one without a non-blank chunk
_build_index(transcript, chunk_size, overlap) ==
    IF transcript = <<>> THEN <<>>
    ELSE Chunks(transcript, chunk_size, Max(1, chunk_size - overlap), 0)

\* BM25Retriever(transcript, config)
BM25Retriever(transcript, chunk_size, overlap, context_window) ==
    [transcript |-> transcript, chunk_size |-> chunk_size, overlap |-> overlap,
     context_window |-> context_window,
     chunks |-> _build_index(transcript, chunk_size, overlap)]

\* what BM25Okapi.get_scores can give a chunk, in hundredths: a negative
\* score, the threshold 0.1, a score above 10
RawScores == {-27, 10, 1200}

\* sorted(range(len(scores)), key=scores, reverse=True)[:top_k]; the sort is
\* stable, equal scores stay in index order
TopIndices(scores, top_k) ==
    LET rank(i) == 1 + Cardinality({j \in DOMAIN scores :
                          scores[j] > scores[i] \/ (scores[j] = scores[i] /\ j < i)})
    IN  [r \in 1..Min(top_k, Len(scores)) |-> CHOOSE i \in DOMAIN scores : rank(i) = r]

\* the "for idx in top_indices" loop from k on: [raised, spans, chunk_of];
\* EvidenceSpan(...) raises for an empty text or end_idx <= start_idx;
\* chunk_of[k] is the index of the chunk spans[k] was built around
RECURSIVE BuildSpans(_, _, _, _)
BuildSpans(self, scores, top_indices, k) ==
    IF k > Len(top_indices) THEN [raised |-> "none", spans |-> <<>>, chunk_of |-> <<>>]
    ELSE
    LET idx == top_indices[k]
        score == scores[idx]
        chunk_text == self.chunks[idx].text
        chunk_pos == self.chunks[idx].pos
        start_idx == Max(0, chunk_pos - self.context_window)
        end_idx == Min(Len(self.transcript),
                       chunk_pos + Len(chunk_text) + self.context_window)
        span_text == strip(Slice(self.transcript, start_idx, end_idx))
        normalized_score == Min(1000, score)
    IN  Bind(BuildSpans(self, scores, top_indices, k + 1), LAMBDA rest :
           IF score < 10 THEN rest
           ELSE IF span_text = <<>> \/ end_idx <= start_idx
           THEN [raised |-> "ValidationError", spans |-> <<>>, chunk_of |-> <<>>]
           ELSE IF rest.raised # "none" THEN rest
           ELSE [raised |-> "none",
                 spans |-> <<EvidenceSpan(span_text, start_idx, end_idx, normalized_score)>>
                           \o rest.spans,
                 chunk_of |-> <<idx>> \o rest.chunk_of])

\* BM25Retriever.retrieve, scores being what get_scores returns for the claim
BM25Retrieve(self, claim, top_k, scores) ==
    IF self.chunks = <<>> \/ claim = <<>>
    THEN [raised |-> "none", spans |-> <<>>, chunk_of |-> <<>>]
    ELSE BuildSpans(self, scores, TopIndices(scores, top_k), 1)

InitBM25 ==
    /\ AtRest
    /\ \E transcript \in Strings, chunk_size \in 1..MaxChunkSize,
          overlap \in 0..MaxChunkSize, context_window \in 0..MaxContext :
          unit = [called |-> FALSE,
                  self |-> BM25Retriever(transcript, chunk_size, overlap, context_window)]

\* retriever.retrieve(claim, top_k)
Retrieve(claim, top_k, scores) ==
    /\ ~unit.called
    /\ \E r \in {BM25Retrieve(unit.self, claim, top_k, scores)} :
          unit' = [called |-> TRUE, self |-> unit.self, claim |-> claim, top_k |-> top_k,
                   raised |-> r.raised, spans |-> r.spans, chunk_of |-> r.chunk_of]
    /\ UNCHANGED <<policy, checker, twin, out, twin_out, cleared, engine, arb>>

NextBM25 ==
    \E claim \in {<<>>, <<"a">>}, top_k \in 1..MaxTopK :
       \E scores \in [DOMAIN unit.self.chunks -> RawScores] :
          Retrieve(claim, top_k, scores)

SpecBM25 == InitBM25 /\ [][NextBM25]_vars

\* ------------------------------------------------------------- PathResolver
MaxPaths == 3

\* a document as a flat dict: each key is absent or holds null, an empty
\* string, an empty list, an empty map or a text
Keys == {"hpi", "cc", "note"}
Absent == "<absent>"
PyNone == "None"
EmptyValues == {"", "[]", "{}"}
PathTexts == {"chest pain", "no fever"}
PathValues == {Absent, PyNone} \cup EmptyValues \cup PathTexts
PathDocuments == [Keys -> PathValues]
PathLists == UNION {[1..n -> Keys] : n \in 1..MaxPaths}

\* PathResolver._get_nested for a path of one key
_get_nested(data, key, default) ==
    IF data[key] # Absent THEN data[key] ELSE default

\* PathResolver.get_value for a dict and a path without "[" or "."
get_value(data, path, default) ==
    IF path = "" THEN default ELSE _get_nested(data, path, default)

\* PathResolver.resolve_with_fallbacks
RECURSIVE resolve_with_fallbacks(_, _, _)
resolve_with_fallbacks(data, paths, default) ==
    IF paths = <<>> THEN default
    ELSE LET value == get_value(data, Head(paths), PyNone)
         IN  IF value # PyNone /\ value # "" THEN value
             ELSE resolve_with_fallbacks(data, Tail(paths), default)

\* extract_claims_configurable for one field with path and fallback_paths:
\* the field text, or null when the field is passed over
ResolveFieldText(summary, all_paths) ==
    LET field_value == resolve_with_fallbacks(summary, all_paths, PyNone)
    IN  IF field_value \in {PyNone} \cup EmptyValues \/ field_value \notin PathTexts
        THEN PyNone
        ELSE field_value

InitPath ==
    /\ AtRest
    /\ \E data \in PathDocuments : unit = [called |-> FALSE, data |-> data]

\* PathResolver.resolve_with_fallbacks(data, paths, default), and the
\* extractor on a field declared with these paths
Resolve(paths, default) ==
    /\ ~unit.called
    /\ unit' = [called |-> TRUE, data |-> unit.data, paths |-> paths, default |-> default,
                value |-> resolve_with_fallbacks(unit.data, paths, default),
                field_text |-> ResolveFieldText(unit.data, paths)]
    /\ UNCHANGED <<policy, checker, twin, out, twin_out, cleared, engine, arb>>

NextPath == \E paths \in PathLists, default \in {PyNone, "n/a"} : Resolve(paths, default)

SpecPath == InitPath /\ [][NextPath]_vars

\* ---------------------------------------------------- split_compound_claims
MaxTokens == 5
MaxMinClaimLength == 2

\* a parsed text: each token is a verb, another word, or a coordinating
\* conjunction whose head is a verb ("and")
TokenKinds == {"verb", "word", "and"}
Docs == UNION {[1..n -> TokenKinds] : n \in 1..MaxTokens}

\* has_verb
has_verb(tokens) == \E i \in DOMAIN tokens : tokens[i] = "verb"

\* conj_positions, ascending
conj_positions(doc) == SelectSeq([i \in DOMAIN doc |-> i], LAMBDA i : doc[i] = "and")

\* enough words and a verb
SideOk(tokens, min_claim_length) == Len(tokens) >= min_claim_length /\ has_verb(tokens)

\* the "for conj_idx in conj_positions" loop from the k-th conjunction on;
\* start is the first token of the side being built: [start, sub_claims]
RECURSIVE SplitLoop(_, _, _, _, _)
SplitLoop(doc, conj, k, start, min_claim_length) ==
    IF k > Len(conj) THEN [start |-> start, sub_claims |-> <<>>]
    ELSE LET before_tokens == SubSeq(doc, start, conj[k] - 1)
         IN  IF before_tokens # <<>> /\ SideOk(before_tokens, min_claim_length)
             THEN Bind(SplitLoop(doc, conj, k + 1, conj[k] + 1, min_claim_length), LAMBDA rest :
                     [rest EXCEPT !.sub_claims = <<before_tokens>> \o @])
             ELSE SplitLoop(doc, conj, k + 1, start, min_claim_length)

\* split_compound_claims with the language model loaded
split_compound_claims(doc, min_claim_length) ==
    IF conj_positions(doc) = <<>> THEN <<doc>>
    ELSE
    Bind(SplitLoop(doc, conj_positions(doc), 1, 1, min_claim_length), LAMBDA loop :
       LET after_tokens == SubSeq(doc, loop.start, Len(doc))
           sub_claims == loop.sub_claims \o
                         (IF loop.start <= Len(doc) /\ SideOk(after_tokens, min_claim_length)
                          THEN <<after_tokens>> ELSE <<>>)
       IN  IF Len(sub_claims) > 1 THEN sub_claims ELSE <<doc>>)

InitSplit ==
    /\ AtRest
    /\ \E doc \in Docs : unit = [called |-> FALSE, text |-> doc]

\* split_compound_claims(text, min_claim_length)
Split(min_claim_length) ==
    /\ ~unit.called
    /\ unit' = [called |-> TRUE, text |-> unit.text, min_claim_length |-> min_claim_length,
                sub_claims |-> split_compound_claims(unit.text, min_claim_length)]
    /\ UNCHANGED <<policy, checker, twin, out, twin_out, cleared, engine, arb>>

NextSplit == \E min_claim_length \in 1..MaxMinClaimLength : Split(min_claim_length)

SpecSplit == InitSplit /\ [][NextSplit]_vars

\* ------------------------------------------------------------- NLIValidator
MaxNliSpans == 3

\* the default thresholds, in thousandths
refute_threshold == 900
support_threshold == 300

\* an evidence span as the validator sees it: what _is_negated says of its
\* text, and the label and confidence _classify_pair gives it
NliSpans ==
    [negated : BOOLEAN, relation : {"contradiction"}, confidence : {600, 950}]
    \cup [negated : BOOLEAN, relation : {"entailment"}, confidence : {250, 600, 950}]
    \cup [negated : BOOLEAN, relation : {"neutral"}, confidence : {950}]

NliEvidence == UNION {[1..n -> NliSpans] : n \in 0..MaxNliSpans}

\* the loop "for ev in evidence[:max_evidence_spans]" from span k on, with
\* the verdict, best_evidence (an index, 0 for none) and best_confidence so far
RECURSIVE NliSweep(_, _, _, _, _, _, _)
NliSweep(evidence, k, last, claim_is_negated, verdict, best_evidence, best_confidence) ==
    IF k > last
    THEN [verdict |-> verdict, best_evidence |-> best_evidence, best_confidence |-> best_confidence]
    ELSE LET ev == evidence[k]
         IN  IF claim_is_negated /\ ev.negated
             THEN [verdict |-> "supported", best_evidence |-> k, best_confidence |-> 1000]
             ELSE IF ev.relation = "contradiction" /\ ev.confidence >= refute_threshold
             THEN [verdict |-> "refuted", best_evidence |-> k, best_confidence |-> ev.confidence]
             ELSE IF /\ ev.relation = "entailment" /\ ev.confidence >= support_threshold
                     /\ ev.confidence > best_confidence
             THEN NliSweep(evidence, k + 1, last, claim_is_negated, "supported", k, ev.confidence)
             ELSE NliSweep(evidence, k + 1, last, claim_is_negated,
                           verdict, best_evidence, best_confidence)

\* NLIValidator.validate
NliValidate(claim_is_negated, evidence, max_evidence_spans) ==
    IF evidence = <<>>
    THEN [verdict |-> "insufficient_evidence", best_evidence |-> 0, best_confidence |-> 0]
    ELSE NliSweep(evidence, 1, Min(max_evidence_spans, Len(evidence)), claim_is_negated,
                  "insufficient_evidence", 0, 0)

InitNli ==
    /\ AtRest
    /\ \E claim_is_negated \in BOOLEAN, evidence \in NliEvidence :
          unit = [called |-> FALSE, claim_is_negated |-> claim_is_negated, evidence |-> evidence]

\* NLIValidator({max_evidence_spans: n}).validate(claim, evidence, transcript)
Validate(max_evidence_spans) ==
    /\ ~unit.called
    /\ \E r \in {NliValidate(unit.claim_is_negated, unit.evidence, max_evidence_spans)} :
          unit' = [called |-> TRUE, claim_is_negated |-> unit.claim_is_negated,
                   evidence |-> unit.evidence, max_evidence_spans |-> max_evidence_spans,
                   verdict |-> r.verdict, best_evidence |-> r.best_evidence]
    /\ UNCHANGED <<policy, checker, twin, out, twin_out, cleared, engine, arb>>

NextNli == \E max_evidence_spans \in 1..MaxNliSpans : Validate(max_evidence_spans)

SpecNli == InitNli /\ [][NextNli]_vars

\* --------------------------------------------------- TemporalDriftValidator
drift_threshold == 7

\* relative_map, the phrases of the model in the order of the dict
RelativePhrases == <<"today", "yesterday", "last week", "last month">>
relative_map == [today |-> 0, yesterday |-> -1, last_week |-> -7, last_month |-> -30]

\* numeric expressions: "3 days ago", "2 weeks ago"
NumericExpressions == [three_days_ago |-> -3, two_weeks_ago |-> -14]

\* a text as far as time goes: the relative phrases it holds, and its
\* numeric expressions in text order
TemporalTexts ==
    [phrases : SUBSET Range(RelativePhrases),
     numerics : {<<>>, <<"three_days_ago">>, <<"two_weeks_ago">>}]

PhraseKey(p) == CASE p = "last week" -> "last_week" [] p = "last month" -> "last_month" [] OTHER -> p

\* _extract_temporal: day offsets, the relative phrases first in the order
\* of relative_map, then the numeric expressions
_extract_temporal(text) ==
    LET found == SelectSeq(RelativePhrases, LAMBDA p : p \in text.phrases)
    IN  [i \in DOMAIN found |-> relative_map[PhraseKey(found[i])]]
        \o [i \in DOMAIN text.numerics |-> NumericExpressions[text.numerics[i]]]

\* isinstance(x, (int, float)) for an element of a list of day offsets
IsIntOrFloat(x) == x \in Int

\* _compare_temporal_sets as the pair (numerator, denominator) of
\* claim_avg - evidence_avg
_compare_temporal_sets(claim_times, evidence_times) ==
    IF claim_times = <<>> \/ evidence_times = <<>> THEN <<0, 1>>
    ELSE <<SumSeq(claim_times) - evidence_times[1] * Len(claim_times), Len(claim_times)>>

\* TemporalDriftValidator.validate for non-empty evidence: the verdict and
\* the case that gave it
TemporalValidate(claim, evidence, has_numeric_error, overlap_high) ==
    LET claim_times == _extract_temporal(claim)
        evidence_times == _extract_temporal(evidence)
        all_times == claim_times \o evidence_times
        drift == _compare_temporal_sets(claim_times, evidence_times)
        diff_num == IF drift[1] < 0 THEN -drift[1] ELSE drift[1]
    IN  IF has_numeric_error THEN [verdict |-> "refuted", case |-> "numeric"]
        ELSE IF claim_times = <<>> /\ evidence_times = <<>>
        THEN [verdict |-> "supported", case |-> "none"]
        ELSE IF claim_times # <<>> /\ evidence_times = <<>>
        THEN [verdict |-> IF overlap_high THEN "supported" ELSE "insufficient_evidence",
              case |-> "claim_only"]
        ELSE IF /\ Range(claim_times) # Range(evidence_times)
                /\ ~\E i \in DOMAIN all_times : IsIntOrFloat(all_times[i])
        THEN [verdict |-> "refuted", case |-> "symbolic"]
        ELSE [verdict |-> IF diff_num > drift_threshold * drift[2]
                          THEN "refuted" ELSE "supported",
              case |-> "drift"]

InitTemporal ==
    /\ AtRest
    /\ \E claim \in TemporalTexts, evidence \in TemporalTexts :
          unit = [called |-> FALSE, claim |-> claim, evidence |-> evidence]

\* validator.validate(claim, evidence, transcript), evidence not empty
ValidateTemporal(has_numeric_error, overlap_high) ==
    /\ ~unit.called
    /\ \E r \in {TemporalValidate(unit.claim, unit.evidence, has_numeric_error, overlap_high)} :
          unit' = [called |-> TRUE, claim |-> unit.claim, evidence |-> unit.evidence,
                   has_numeric_error |-> has_numeric_error, overlap_high |-> overlap_high,
                   verdict |-> r.verdict, case |-> r.case]
    /\ UNCHANGED <<policy, checker, twin, out, twin_out, cleared, engine, arb>>

NextTemporal ==
    \E has_numeric_error \in BOOLEAN, overlap_high \in BOOLEAN :
       ValidateTemporal(has_numeric_error, overlap_high)

SpecTemporal == InitTemporal /\ [][NextTemporal]_vars

\* =================================================================== claims
Verified == out.op = "verify_summary" /\ out.raised = "none"

Trace(n) == out.trace[n]

Dispositions == out.report.dispositions

\* the claims of the verified document, in extraction order
Extracted == extract_claims_configurable(out.report.source_fields)

Declared(field) == policy.validators[field]

Position(seq, x) == CHOOSE i \in DOMAIN seq : seq[i] = x

(* C1: when constructing or running a configured validator raises, exactly one
   ValidatorResult with verdict insufficient_evidence and explanation
   "Validator error" is recorded for that validator, the other validators of
   the claim still run, the claim still gets a Disposition, and verify_summary
   does not raise. *)
C1_FailureIsolation ==
    out.op = "verify_summary" =>
       \A n \in DOMAIN out.trace :
          (Trace(n).op = "validate" /\ Trace(n).raised) =>
             LET claim == Trace(n).claim
                 k == Trace(n).idx
                 name == Declared(claim.field)[k].name
             IN  /\ out.raised = "none"
                 /\ \A j \in DOMAIN Declared(claim.field) :
                       \E m \in DOMAIN out.trace :
                          Trace(m).op = "validate" /\ Trace(m).claim = claim /\ Trace(m).idx = j
                 /\ \E i \in DOMAIN Dispositions :
                       LET results == Dispositions[i].validator_results
                       IN  /\ Dispositions[i].claim = claim
                           /\ Len(results) = Len(Declared(claim.field))
                           /\ Cardinality({j \in DOMAIN results : results[j].validator = name}) = 1
                           /\ results[k] = ValidatorResult(name, "insufficient_evidence",
                                                           "Validator error", None)

\* a validator raised, a later validator of the same claim ran, and the claim
\* was found supported
C1_Witness ==
    /\ Verified
    /\ \E n, m \in DOMAIN out.trace, i \in DOMAIN Dispositions :
          /\ Trace(n).op = "validate" /\ Trace(n).raised
          /\ Trace(m).op = "validate" /\ ~Trace(m).raised
          /\ Trace(m).claim = Trace(n).claim /\ Trace(m).idx > Trace(n).idx
          /\ Dispositions[i].claim = Trace(n).claim
          /\ Dispositions[i].verdict = "supported"

NoRuleMatches ==
    \A i \in DOMAIN engine.config.conflict_resolution :
       ~RuleFires(engine.config.conflict_resolution[i], arb.results, arb.evidence)

(* C2: under priority_based with the default verdict_priority, a non-empty
   list of results holding a refuted verdict, with no conflict rule matching,
   is arbitrated to refuted. *)
C2_PriorityDominance ==
    ( /\ arb.called
      /\ engine.config.strategy = "priority_based"
      /\ engine.config.verdict_priority = DefaultPriority
      /\ arb.results # <<>>
      /\ "refuted" \in VerdictsOf(arb.results)
      /\ NoRuleMatches )
    => (arb.raised = "none" /\ arb.value.verdict = "refuted")

\* refuted wins over an earlier supported, in an engine that has a conflict rule
C2_Witness ==
    /\ arb.called
    /\ engine.config.strategy = "priority_based"
    /\ engine.config.verdict_priority = DefaultPriority
    /\ engine.config.conflict_resolution # <<>>
    /\ Len(arb.results) >= 2
    /\ arb.results[1].verdict = "supported"
    /\ "refuted" \in VerdictsOf(arb.results)
    /\ NoRuleMatches
    /\ arb.raised = "none" /\ arb.value.verdict = "refuted"

\* the extracted claims whose field has a validator, in extraction order
Validated == SelectSeq(Extracted, LAMBDA c : Declared(c.field) # <<>>)

Pipeline(n) == Trace(n).op \in {"validate", "arbitrate"}

(* C3: claims are processed in extraction order and the report lists their
   dispositions in that order; the validators of a claim are invoked in the
   order the policy declares, and validator_results lists them so; the quality
   modules run on a disposition in the order the policy declares, after the
   arbitration of its claim. *)
C3_Ordering ==
    Verified =>
       /\ [i \in DOMAIN Dispositions |-> Dispositions[i].claim] = Validated
       /\ \A i \in DOMAIN Dispositions :
             [k \in DOMAIN Dispositions[i].validator_results |->
                 Dispositions[i].validator_results[k].validator]
             = [k \in DOMAIN Declared(Dispositions[i].claim.field) |->
                  Declared(Dispositions[i].claim.field)[k].name]
       /\ \A n, m \in DOMAIN out.trace :
             n < m =>
                /\ (Pipeline(n) /\ Pipeline(m)) =>
                      Position(Extracted, Trace(n).claim) <= Position(Extracted, Trace(m).claim)
                /\ (Trace(n).op = Trace(m).op /\ Trace(n).claim = Trace(m).claim) =>
                      Trace(n).idx < Trace(m).idx
                /\ (Trace(n).claim = Trace(m).claim /\ Trace(n).op = "arbitrate") =>
                      Trace(m).op = "analyze"
                /\ (Trace(n).op = "analyze" /\ Trace(m).op = "analyze") =>
                      Position(Validated, Trace(n).claim) <= Position(Validated, Trace(m).claim)
                /\ Trace(n).op = "analyze" => Trace(m).op = "analyze"
       /\ \A i \in DOMAIN Dispositions :
             /\ \A k \in DOMAIN Declared(Dispositions[i].claim.field) :
                   \E n \in DOMAIN out.trace :
                      Trace(n) = Event("validate", Dispositions[i].claim, k, Trace(n).raised)
             /\ \A k \in DOMAIN policy.quality_modules :
                   \E n \in DOMAIN out.trace :
                      Trace(n) = Event("analyze", Dispositions[i].claim, k, Trace(n).raised)

\* two claims, each with two validators or more, and two quality modules
C3_Witness ==
    /\ Verified
    /\ Len(Dispositions) = 2
    /\ \A i \in DOMAIN Dispositions : Len(Dispositions[i].validator_results) >= 2
    /\ Dispositions[1].validator_results[1].validator
          # Dispositions[1].validator_results[2].validator
    /\ Len(policy.quality_modules) = 2

(* C4: an extracted claim gets a Disposition if and only if at least one
   validator is configured for its field, and every Disposition holds exactly
   one ValidatorResult per validator configured for its field, hence at least
   one. *)
C4_DispositionIffValidator ==
    Verified =>
       /\ \A j \in DOMAIN Extracted :
             (\E i \in DOMAIN Dispositions : Dispositions[i].claim = Extracted[j])
             <=> Declared(Extracted[j].field) # <<>>
       /\ Len(Dispositions) = Len(Validated)
       /\ \A i \in DOMAIN Dispositions :
             LET results == Dispositions[i].validator_results
                 declared == Declared(Dispositions[i].claim.field)
             IN  /\ results # <<>>
                 /\ Len(results) = Len(declared)
                 /\ \A k \in DOMAIN declared : results[k].validator = declared[k].name

\* two claims extracted, one of a field with no validator: one Disposition
C4_Witness ==
    /\ Verified
    /\ Len(Extracted) = 2
    /\ \E j \in DOMAIN Extracted : Declared(Extracted[j].field) = <<>>
    /\ Len(Dispositions) = 1
    /\ Len(Dispositions[1].validator_results) = 2
\* ------------------------------------------------------ the retriever cache
\* a step that is a verify_summary call on a caching Checker
Lookup == checker.cache_retrievers /\ out'.op = "verify_summary"

\* the key that call looks up
LookupKey == CacheKey(out'.transcript, policy.retriever, policy.retriever_config)

Cache == checker._retriever_cache

Stats == get_cache_stats(checker)

(* C5: a miss while the cache holds max_cache_size entries removes exactly one
   entry, the one inserted earliest, and then inserts the new retriever; a hit
   leaves the cache, and so its oldest entry, as it was. *)
C5_FifoEviction ==
    [][ Lookup =>
          IF LookupKey \in CacheKeys(Cache)
          THEN Cache' = Cache
          ELSE Len(Cache) >= checker.max_cache_size =>
                  /\ Cache # <<>>
                  /\ Len(Cache') = Len(Cache)
                  /\ \A i \in 1..(Len(Cache) - 1) : Cache'[i] = Cache[i + 1]
                  /\ Cache'[Len(Cache')].key = LookupKey ]_vars

\* the same, for a cache that may hold an entry
C5_FifoEviction_Positive ==
    [][ (Lookup /\ checker.max_cache_size >= 1) =>
          IF LookupKey \in CacheKeys(Cache)
          THEN Cache' = Cache
          ELSE Len(Cache) >= checker.max_cache_size =>
                  /\ Cache # <<>>
                  /\ Len(Cache') = Len(Cache)
                  /\ \A i \in 1..(Len(Cache) - 1) : Cache'[i] = Cache[i + 1]
                  /\ Cache'[Len(Cache')].key = LookupKey ]_vars

\* a miss on a Checker with max_cache_size = 0 left verify_summary raising
C5_Witness ==
    /\ checker.cache_retrievers /\ checker.max_cache_size = 0
    /\ out.op = "verify_summary" /\ out.raised = "StopIteration"
    /\ checker._cache_misses >= 1
    /\ Cache = <<>>

(* C6: whatever verify_summary and clear_cache calls were made, cache_size
   does not exceed max_cache_size. *)
C6_CacheBounded ==
    /\ Stats.cache_size <= Stats.max_cache_size
    /\ Stats.max_cache_size = checker.max_cache_size
    /\ Stats.cache_size = Cardinality(CacheKeys(Cache))

\* a full cache that has evicted, right after a miss
C6_Witness ==
    /\ out.op = "verify_summary" /\ out.raised = "none"
    /\ checker.max_cache_size = MaxCacheSize
    /\ Stats.cache_size = checker.max_cache_size
    /\ Stats.cache_misses > checker.max_cache_size
    /\ Cache[Len(Cache)].key = CacheKey(out.transcript, policy.retriever, policy.retriever_config)

Abs(x) == IF x < 0 THEN -x ELSE x

(* C7: a lookup increments exactly one of cache_hits and cache_misses: it is a
   hit, leaving the cache as it was, iff the key is cached, else a miss that
   inserts the key.  Two identical calls on a fresh Checker give 1 miss and 1
   hit, two calls with different transcripts give 2 misses and no hit, and
   hit_rate is cache_hits / (cache_hits + cache_misses) rounded to 3 decimals,
   0.0 before any lookup. *)
C7_HitMissCounting ==
    /\ [][ Lookup =>
             /\ IF LookupKey \in CacheKeys(Cache)
                THEN /\ checker'._cache_hits = checker._cache_hits + 1
                     /\ checker'._cache_misses = checker._cache_misses
                     /\ Cache' = Cache
                ELSE /\ checker'._cache_misses = checker._cache_misses + 1
                     /\ checker'._cache_hits = checker._cache_hits
                     /\ LookupKey \in CacheKeys(Cache')
             /\ (out.op = "verify_summary" /\ Stats.cache_hits + Stats.cache_misses = 1) =>
                   IF out'.transcript = out.transcript
                   THEN Stats'.cache_misses = 1 /\ Stats'.cache_hits = 1
                   ELSE Stats'.cache_misses = 2 /\ Stats'.cache_hits = 0 ]_vars
    /\ [](IF Stats.cache_hits + Stats.cache_misses = 0
          THEN Stats.hit_rate = 0
          ELSE 2 * Abs(1000 * Stats.cache_hits
                       - Stats.hit_rate * (Stats.cache_hits + Stats.cache_misses))
                  <= Stats.cache_hits + Stats.cache_misses)

\* two calls with different transcripts on a fresh Checker: one miss, one hit
C7_Witness ==
    /\ checker.cache_retrievers
    /\ out.op = "verify_summary" /\ out.raised = "none"
    /\ out.retriever.transcript # out.transcript
    /\ Stats.cache_misses = 1 /\ Stats.cache_hits = 1

(* C8: the report a caching Checker returns for a call equals the report an
   otherwise identical Checker with cache_retrievers = false returns for it,
   and the latter stores no retriever and leaves the counters alone. *)
C8_CacheTransparency ==
    /\ out.op = twin_out.op
    /\ out.raised = twin_out.raised
    /\ out.report = twin_out.report
    /\ twin._retriever_cache = <<>>
    /\ twin._cache_hits = 0 /\ twin._cache_misses = 0

\* both Checkers returned a report, and the reports differ
C8_Witness ==
    /\ checker.cache_retrievers
    /\ out.op = "verify_summary" /\ out.raised = "none" /\ twin_out.raised = "none"
    /\ out.report # twin_out.report

(* C9: clear_cache empties the cache and zeroes cache_hits and cache_misses,
   leaves max_cache_size, cache_retrievers and the configuration as they were,
   and the first lookup after it of a key that was cached is a miss. *)
C9_ClearCache ==
    /\ [][ out'.op = "clear_cache" =>
              /\ Cache' = <<>>
              /\ Stats'.cache_size = 0 /\ Stats'.cache_hits = 0 /\ Stats'.cache_misses = 0
              /\ checker'.max_cache_size = checker.max_cache_size
              /\ checker'.cache_retrievers = checker.cache_retrievers
              /\ policy' = policy ]_vars
    /\ [][ (Lookup /\ out.op = "clear_cache" /\ LookupKey \in cleared) =>
              /\ Stats'.cache_misses = 1 /\ Stats'.cache_hits = 0 ]_vars

\* a key that clear_cache dropped was looked up next, and missed
C9_Witness ==
    /\ checker.cache_retrievers
    /\ out.op = "verify_summary" /\ out.raised = "none"
    /\ CacheKey(out.transcript, policy.retriever, policy.retriever_config) \in cleared
    /\ Stats.cache_misses = 1 /\ Stats.cache_hits = 0
    /\ Stats.cache_size = 1
\* ------------------------------------------------ validation at construction
\* the configs the constructor is to accept
WellFormedRule(rule) ==
    /\ rule.is_dict
    /\ rule.action # Missing
    /\ rule.validators_kind = "list" /\ Len(rule.validators) >= 2
    /\ rule.action = "check_lexical_overlap" =>
          (rule.threshold_kind = "number" /\ rule.threshold \in 0..1000)

WellFormed(cfg) ==
    /\ cfg.strategy \in Strategies
    /\ cfg.strategy = "weighted_voting" =>
          /\ cfg.default_weights # <<>>
          /\ \A i \in DOMAIN cfg.default_weights : cfg.default_weights[i][2] >= 0
    /\ Range(cfg.verdict_priority) \subseteq Verdicts
    /\ \A i \in DOMAIN cfg.conflict_resolution : WellFormedRule(cfg.conflict_resolution[i])

\* an engine is built exactly from the well-formed configs
C10_RejectsAtConstruction ==
    /\ engine.state = "ready" => WellFormed(engine.config)
    /\ engine.state = "ValueError" => ~WellFormed(engine.config)

(* C10: the constructor rejects an unknown strategy, missing or negative
   default_weights under weighted_voting, a verdict_priority entry that is no
   verdict, and a conflict rule that is no map, lacks action, lacks a list of
   two validators or more, or has a check_lexical_overlap threshold missing or
   outside [0, 1]; and no arbitrate call on a constructed engine raises or
   yields a verdict outside supported, refuted, insufficient_evidence. *)
C10_ConfigValidation ==
    /\ C10_RejectsAtConstruction
    /\ arb.called => (arb.raised = "none" /\ arb.value.verdict \in Verdicts)

\* an engine that was constructed raised in arbitrate, on a rule that fired
C10_Witness ==
    /\ engine.state = "ready"
    /\ arb.called
    /\ arb.raised = "ValidationError"
    /\ \E i \in DOMAIN engine.config.conflict_resolution :
          /\ RuleFires(engine.config.conflict_resolution[i], arb.results, arb.evidence)
          /\ engine.config.conflict_resolution[i].result_if_above \notin Verdicts \cup {Missing}

\* -------------------------------------------- names that are not registered
ValidatorNamesOf(p) ==
    {p.validators[f][i].name : <<f, i>> \in {<<f, i>> \in Fields \X (1..3) : i \in DOMAIN p.validators[f]}}

AllRegistered(p) ==
    /\ p.retriever \in RegisteredRetrievers
    /\ ValidatorNamesOf(p) \subseteq RegisteredValidators
    /\ Range(p.quality_modules) \subseteq RegisteredQualityModules

(* C11: a policy that names a validator, retriever or quality module that is
   not registered makes the construction of the Checker raise, so that no
   verify_summary call ever runs on, and returns a report for, such a
   policy. *)
C11_UnregisteredNameFatal ==
    /\ ~AllRegistered(policy) => __init__(policy) # "none"
    /\ out.op = "verify_summary" => AllRegistered(policy)

\* verify_summary returned a report although a validator of the policy is not
\* registered: the lookup raised inside the validator loop and was absorbed
C11_Witness ==
    /\ Verified
    /\ ~(ValidatorNamesOf(policy) \subseteq RegisteredValidators)
    /\ Dispositions # <<>>
    /\ \E n \in DOMAIN out.trace :
          /\ Trace(n).op = "validate" /\ Trace(n).raised
          /\ get_validators_for_field(policy, Trace(n).claim.field)[Trace(n).idx].name
                \notin RegisteredValidators

\* ------------------------------------------------------------ conflict rules
\* the rule's named validators all appear in the results, with verdicts that differ
RuleMatches(rule, results) ==
    /\ rule.validators_kind = "list"
    /\ Len(MatchedResults(rule.validators, results)) = Len(rule.validators)
    /\ Cardinality(VerdictsOf(MatchedResults(rule.validators, results))) > 1

\* the first such rule in configured order, as a set of at most one index
FirstMatching(rules, results) ==
    {i \in DOMAIN rules : /\ RuleMatches(rules[i], results)
                          /\ \A j \in 1..(i - 1) : ~RuleMatches(rules[j], results)}

LowOverlap(rule, claim, evidence) ==
    _lexical_overlap(claim.text, evidence[1].text)[1] * 1000
        < RuleThreshold(rule) * _lexical_overlap(claim.text, evidence[1].text)[2]

(* C12: when the verdicts of two or more results differ, the first conflict
   rule, in configured order, whose named validators all appear in the results
   with disagreeing verdicts decides; for check_lexical_overlap the verdict is
   result_if_above when the Jaccard overlap of the claim and the top evidence
   span reaches the threshold, and otherwise refuted when any of the results
   that ran is refuted, else insufficient_evidence. *)
C12_ConflictRuleDecides ==
    (/\ arb.called /\ arb.raised = "none"
     /\ Cardinality(VerdictsOf(arb.results)) > 1
     /\ arb.evidence # <<>>) =>
        \A i \in FirstMatching(engine.config.conflict_resolution, arb.results) :
           LET rule == engine.config.conflict_resolution[i]
           IN  rule.action = "check_lexical_overlap" =>
                  arb.value.verdict =
                     IF ~LowOverlap(rule, arb.claim, arb.evidence)
                     THEN IF rule.result_if_above = Missing THEN "supported"
                          ELSE rule.result_if_above
                     ELSE IF "refuted" \in VerdictsOf(arb.results) THEN "refuted"
                          ELSE "insufficient_evidence"

\* a rule decided at low overlap; a validator the rule does not name had
\* refuted, and the verdict is insufficient_evidence
C12_Witness ==
    /\ arb.called /\ arb.raised = "none"
    /\ \E i \in FirstMatching(engine.config.conflict_resolution, arb.results) :
          LET rule == engine.config.conflict_resolution[i]
          IN  /\ RuleFires(rule, arb.results, arb.evidence)
              /\ LowOverlap(rule, arb.claim, arb.evidence)
              /\ "refuted" \notin VerdictsOf(MatchedResults(rule.validators, arb.results))
    /\ "refuted" \in VerdictsOf(arb.results)
    /\ arb.value.verdict = "insufficient_evidence"
    /\ arb.value.validator = "arbitration_engine"

\* ----------------------------------------------------------- weighted voting
\* the sum the statement weighs a verdict by, in millionths:
\* weight(validator) x max(score, 1.0), a missing score counting as 1.0
ScoreOrOne(vr) == IF vr.score = None THEN 1000 ELSE vr.score

ClaimedVerdictScore(cfg, results, v) ==
    SumSeq([i \in DOMAIN results |->
              IF results[i].verdict = v
              THEN Weight(cfg, results[i].validator) * Max(ScoreOrOne(results[i]), 1000)
              ELSE 0])

\* the sum of weight(validator) x score over the results with verdict v
WeightTimesScore(cfg, results, v) ==
    SumSeq([i \in DOMAIN results |->
              IF results[i].verdict = v
              THEN Weight(cfg, results[i].validator) * ScoreOrOne(results[i])
              ELSE 0])

VotedOn ==
    /\ arb.called /\ arb.raised = "none"
    /\ engine.config.strategy = "weighted_voting"
    /\ Len(arb.results) >= 2
    /\ ~_apply_conflict_rules(engine.config.conflict_resolution, arb.claim,
                              arb.results, arb.evidence).resolved

(* C13: under weighted_voting, with two results or more and no conflict rule
   applied, the verdict returned maximizes, over the three verdicts, the sum
   over the results with that verdict of weight(validator) x max(score, 1.0),
   a missing score counting as 1.0. *)
C13_WeightedVotingMax ==
    VotedOn =>
        \A v \in Verdicts :
            ClaimedVerdictScore(engine.config, arb.results, arb.value.verdict)
                >= ClaimedVerdictScore(engine.config, arb.results, v)

\* what the code maximizes: weight(validator) x score, a missing score
\* counting as 1.0; ties go to the first of supported, refuted,
\* insufficient_evidence
C13_WeightTimesScore ==
    VotedOn =>
        /\ \A v \in Verdicts :
              WeightTimesScore(engine.config, arb.results, arb.value.verdict)
                  >= WeightTimesScore(engine.config, arb.results, v)
        /\ \A j \in 1..3 :
              WeightTimesScore(engine.config, arb.results, VotingOrder[j])
                  = WeightTimesScore(engine.config, arb.results, arb.value.verdict)
              => Position(VotingOrder, arb.value.verdict) <= j

\* a vote that a score below 1.0 decided: the verdict returned is not the one
\* the weights alone would pick
C13_Witness ==
    /\ VotedOn
    /\ \E i \in DOMAIN arb.results : arb.results[i].score # None /\ arb.results[i].score < 1000
    /\ \E v \in Verdicts :
          ClaimedVerdictScore(engine.config, arb.results, v)
              > ClaimedVerdictScore(engine.config, arb.results, arb.value.verdict)

\* ------------------------------------------------- quality_score of arbitrate
\* the agreement rate with the final verdict, times 0.9 when a refutation was
\* overridden, in thousandths
AgreementScore(results, final_verdict) ==
    LET agree == Cardinality({i \in DOMAIN results : results[i].verdict = final_verdict})
        factor == IF /\ \E i \in DOMAIN results : results[i].verdict = "refuted"
                     /\ final_verdict # "refuted"
                  THEN 9 ELSE 10
    IN  Round3(agree * factor, Len(results) * 10)

(* C14: every Disposition that arbitrate returns for two results or more,
   whether a strategy or a conflict rule decided its verdict, has quality_score
   equal to the share of results whose verdict is the final verdict, times 0.9
   when some result is refuted and the final verdict is not. *)
C14_QualityScoreOnEveryPath ==
    (arb.called /\ arb.raised = "none" /\ Len(arb.results) >= 2) =>
        arb.value.quality_score = AgreementScore(arb.results, arb.value.verdict)

\* a conflict rule decided the verdict and the Disposition has no quality_score
C14_Witness ==
    /\ arb.called /\ arb.raised = "none" /\ Len(arb.results) >= 2
    /\ _apply_conflict_rules(engine.config.conflict_resolution, arb.claim,
                             arb.results, arb.evidence).resolved
    /\ arb.value.validator = "arbitration_engine"
    /\ arb.value.quality_score = None

\* ------------------------------------------------------------ evidence spans
(* C15: every Disposition produced by arbitration retains at most 5 evidence
   spans, for any number of spans passed in and on every arbitration path
   (zero results, one result, conflict rule, any strategy). *)
C15_AtMostFiveSpans ==
    (arb.called /\ arb.raised = "none") => Len(arb.value.evidence) <= 5

\* more than 5 spans were passed in and the Disposition holds them all
C15_Witness ==
    /\ arb.called /\ arb.raised = "none"
    /\ Len(arb.evidence) > 5
    /\ arb.value.evidence = arb.evidence

\* ------------------------------------------------------------ quality stage
\* a score, an unset one taken as 1.0
Val(x) == IF x = None THEN 1000 ELSE x

\* the disposition as the statement has the quality modules leave it: every
\* module whose analyze returned adds its issues and multiplies the score,
\* an unset score taken as 1.0, by its factor
RECURSIVE ClaimedStage(_, _, _)
ClaimedStage(modules, k, d) ==
    IF k > Len(modules) THEN d
    ELSE IF Analyze(modules[k], d).raised # "none" THEN ClaimedStage(modules, k + 1, d)
    ELSE ClaimedStage(modules, k + 1,
            [d EXCEPT !.quality_issues = @ \o Analyze(modules[k], d).issues,
                      !.quality_score =
                          IF Analyze(modules[k], d).quality_score = NotANumber THEN @
                          ELSE (Val(@) * Analyze(modules[k], d).quality_score) \div 1000])

(* C16: after the quality stage each Disposition's quality_score is its
   quality_score from arbitration, 1.0 when unset, times the factor of every
   quality module that ran on it, its quality_issues are the issues those
   modules returned, in module order, and its quality_score is no higher than
   the one arbitration gave it, 0.0 included. *)
C16_QualityScoreProduct ==
    Verified =>
        \A i \in DOMAIN Dispositions :
           LET claimed == ClaimedStage(policy.quality_modules, 1, out.arbitrated[i])
           IN  /\ Val(Dispositions[i].quality_score) = Val(claimed.quality_score)
               /\ Dispositions[i].quality_issues = claimed.quality_issues
               /\ Val(Dispositions[i].quality_score) <= Val(out.arbitrated[i].quality_score)

\* arbitration gave 0.0, a module returned a factor below 1.0, and the
\* Disposition ends with that factor as its quality_score
C16_Witness ==
    /\ Verified
    /\ \E i \in DOMAIN Dispositions :
          /\ out.arbitrated[i].quality_score = 0
          /\ Dispositions[i].quality_issues # <<>>
          /\ Dispositions[i].quality_score = 800

\* ----------------------------------------------------------- neutral module
\* the policy with one more quality module, after the first k
WithModule(p, k, name) ==
    [p EXCEPT !.quality_modules =
        SubSeq(@, 1, k) \o <<name>> \o SubSeq(@, k + 1, Len(@))]

WithoutModule(p, name) ==
    [p EXCEPT !.quality_modules = SelectSeq(@, LAMBDA m : m # name)]

\* the report of the last call, had the quality stage and the scoring run
\* under policy p
ReportUnder(p) ==
    Bind(QualityStage(p, out.arbitrated, 1).dispositions, LAMBDA quality :
       VerificationReport(quality, out.report.source_fields,
           _calculate_overall_score(p, quality, out.report.source_fields),
           ReportQualityScore(quality),
           detect_missing_claims(out.transcript, out.report.source_fields)))

(* C17: a quality module whose analyze returns no issue and quality_score 1.0
   for every disposition, added to the policy at any position of
   quality_modules, leaves the report equal to the report without it:
   verdicts, quality_issues, quality_score and confidence of every
   disposition, overall_score and the report's quality_score. *)
C17_NeutralModule ==
    Verified =>
        /\ \A k \in 0..Len(policy.quality_modules) :
              ReportUnder(WithModule(policy, k, "neutral_module")) = out.report
        /\ ReportUnder(WithoutModule(policy, "neutral_module")) = out.report

\* the policy holds the neutral module ahead of a module that found an issue
\* and lowered the score
C17_Witness ==
    /\ Verified
    /\ policy.quality_modules[1] = "neutral_module"
    /\ \E i \in DOMAIN Dispositions :
          /\ Dispositions[i].quality_issues # <<>>
          /\ out.arbitrated[i].quality_score = 500
          /\ Dispositions[i].quality_score = 400
          /\ Dispositions[i].confidence = 900

\* ----------------------------------------------------------- failing module
\* the passes of the quality loop on the i-th disposition that ended in the
\* except branch
FailedPasses(i) ==
    {k \in DOMAIN policy.quality_modules :
        \E n \in DOMAIN out.trace :
           /\ Trace(n).op = "analyze" /\ Trace(n).claim = Dispositions[i].claim
           /\ Trace(n).idx = k /\ Trace(n).raised}

\* the modules from the k-th on, but for the passes in failed
RECURSIVE Keep(_, _, _)
Keep(modules, k, failed) ==
    IF k > Len(modules) THEN <<>>
    ELSE (IF k \in failed THEN <<>> ELSE <<modules[k]>>) \o Keep(modules, k + 1, failed)

\* every configured module was attempted on the i-th disposition
AllAttempted(i) ==
    \A k \in DOMAIN policy.quality_modules :
       \E n \in DOMAIN out.trace :
          /\ Trace(n).op = "analyze" /\ Trace(n).claim = Dispositions[i].claim
          /\ Trace(n).idx = k

(* C18: when creating or running a quality module raises for a disposition,
   verify_summary goes on with the next module and returns a report, and the
   failing module leaves the Disposition's quality_issues, quality_score,
   confidence and verdict as they were before it was attempted: the
   Disposition is the one the other modules alone produce. *)
C18_FailingModuleChangesNothing ==
    (out.op = "verify_summary" /\ out.arbitrated # <<>>) =>
        /\ Verified
        /\ \A i \in DOMAIN Dispositions :
              /\ AllAttempted(i)
              /\ Dispositions[i] =
                    ConfidencePenalty(policy,
                        ApplyModules(Keep(policy.quality_modules, 1, FailedPasses(i)), 1,
                                     out.arbitrated[i]).disposition)

\* a module returned an issue with a quality_score that is no number: the pass
\* raised, and the issue stays on the Disposition
C18_Witness ==
    /\ Verified
    /\ \E i \in DOMAIN Dispositions :
          \E k \in FailedPasses(i) :
             /\ policy.quality_modules[k] = "unscored_module"
             /\ \E j \in DOMAIN Dispositions[i].quality_issues :
                   Dispositions[i].quality_issues[j].type = "omission"
             /\ out.arbitrated[i].quality_issues = <<>>

\* ------------------------------------------------------- confidence penalty
\* the issue types the temporal_numeric_drift module emits
DriftIssueTypes ==
    {"temporal_drift", "unit_mismatch", "numeric_mismatch", "insufficient_numeric_evidence"}

HasIssueOf(d, types) ==
    \E j \in DOMAIN d.quality_issues : d.quality_issues[j].type \in types

(* C19: after the quality modules have run on a Disposition, its confidence,
   1.0 when unset, is multiplied once by quality_confidence_penalty when an
   issue of a type the temporal_numeric_drift module emits (temporal_drift,
   unit_mismatch, numeric_mismatch, insufficient_numeric_evidence) is attached
   to it, however many there are; otherwise the confidence is unchanged; and an
   existing confidence is never raised. *)
C19_ConfidencePenaltyOnce ==
    Verified =>
        \A i \in DOMAIN Dispositions :
           LET before == out.arbitrated[i].confidence
           IN  /\ Dispositions[i].confidence =
                     IF HasIssueOf(Dispositions[i], DriftIssueTypes)
                     THEN (Val(before) * policy.quality_confidence_penalty) \div 1000
                     ELSE before
               /\ before # None => Dispositions[i].confidence <= before

\* the drift module attached an insufficient_numeric_evidence issue, and no
\* other, and the confidence is as arbitration left it
C19_Witness ==
    /\ Verified
    /\ \E i \in DOMAIN Dispositions :
          /\ HasIssueOf(Dispositions[i], {"insufficient_numeric_evidence"})
          /\ ~HasIssueOf(Dispositions[i], {"temporal_drift"})
          /\ Dispositions[i].quality_score < Val(out.arbitrated[i].quality_score)
          /\ Dispositions[i].confidence = out.arbitrated[i].confidence

\* ------------------------------------------------------------ temporal drift
\* the temporal phrases of the top evidence span that the claim lacks
MissingTemporal(d) ==
    IF d.evidence = <<>> THEN {}
    ELSE (Words(d.evidence[1].text) \cap TemporalLexicon) \ Words(d.claim.text)

\* the issues of type temporal_drift and severity medium on d for the phrase
IssuesFor(d, phrase) ==
    {j \in DOMAIN d.quality_issues :
        d.quality_issues[j] = QualityIssue("temporal_drift", "medium", phrase)}

\* where the policy runs the temporal_numeric_drift module
DriftPasses == {k \in DOMAIN policy.quality_modules :
                   policy.quality_modules[k] = "temporal_numeric_drift"}

\* the i-th disposition as the k-th module of the policy finds it
AsFoundBy(k, i) ==
    ApplyModules(SubSeq(policy.quality_modules, 1, k - 1), 1, out.arbitrated[i]).disposition

(* C20: for every Disposition, whatever validators produced it, whose top
   evidence span holds a temporal phrase of the lexicon that the claim text
   lacks, a configured temporal_numeric_drift module attaches one issue of
   type temporal_drift and severity medium for that phrase. *)
C20_TemporalDriftFlagged ==
    (Verified /\ DriftPasses # {}) =>
        \A i \in DOMAIN Dispositions :
           \A phrase \in MissingTemporal(Dispositions[i]) :
              Cardinality(IssuesFor(Dispositions[i], phrase)) = Cardinality(DriftPasses)

(* C20, amended: the same, for the Dispositions the module analyzes: those
   whose quality_score, as the module finds it, is unset or below
   min_quality_score (0.95), and whose top span lacks no more than max_issues
   (3) phrases; a Disposition with a quality_score of 0.95 or more gets no
   issue from the module. *)
C20_TemporalDriftWhenAnalyzed ==
    (Verified /\ DriftPasses # {}) =>
        \A i \in DOMAIN Dispositions :
           \A phrase \in MissingTemporal(Dispositions[i]) :
              Cardinality(IssuesFor(Dispositions[i], phrase)) =
                 Cardinality({k \in DriftPasses :
                                 /\ should_analyze(AsFoundBy(k, i))
                                 /\ Cardinality(MissingTemporal(Dispositions[i])) <= MaxIssues})

\* two validators disagreed, the span says "today", the claim does not, and
\* the Disposition carries the temporal_drift issue
C20_Witness ==
    /\ Verified /\ DriftPasses # {}
    /\ \E i \in DOMAIN Dispositions :
          /\ Len(out.arbitrated[i].validator_results) >= 2
          /\ out.arbitrated[i].quality_score < 950
          /\ "today" \in MissingTemporal(Dispositions[i])
          /\ Cardinality(IssuesFor(Dispositions[i], "today")) = 1

\* ------------------------------------------------------------------ C21
\* the claim's claim_score as the pair (sum in thousandths, count)
ClaimedClaimScore(dispositions) ==
    <<SumSeq([i \in DOMAIN dispositions |->
                 IF dispositions[i].verdict # "supported" THEN 0
                 ELSE IF dispositions[i].quality_score = None THEN 1000
                 ELSE dispositions[i].quality_score]),
      Len(dispositions)>>

\* the required fields with a non-empty value, and their number
ClaimedCompleteness(summary) ==
    <<Cardinality({f \in {"chief_complaint", "plan"} : summary[f] # <<>>}), 2>>

\* round(clamp(0.7 claim_score + 0.3 completeness), 3) in thousandths; a
\* report without dispositions has claim_score 0, the least a fraction can be
ClaimedOverall(report) ==
    LET s == ClaimedClaimScore(report.dispositions)
        c == ClaimedCompleteness(report.source_fields)
        n == IF s[2] = 0 THEN 1 ELSE s[2]
    IN  Max(0, Min(1000, (2 * (7 * s[1] * c[2] + 3000 * c[1] * n) + 10 * n * c[2])
                            \div (2 * 10 * n * c[2])))

(* C21: the overall_score of every report is
   round(clamp(0.7 * claim_score + 0.3 * completeness), 3), claim_score being
   the mean over the dispositions of (1 if supported else 0) * (quality_score
   or 1) and completeness the fraction of required fields with a non-empty
   value; it lies in [0, 1]. *)
C21_OverallScore ==
    (out.op = "verify_summary" /\ out.raised = "none") =>
        /\ out.report.overall_score = ClaimedOverall(out.report)
        /\ out.report.overall_score \in 0..1000

\* a report without dispositions for a document that holds a required field
C21_Witness ==
    /\ out.op = "verify_summary" /\ out.raised = "none"
    /\ out.report.dispositions = <<>>
    /\ out.report.source_fields.plan # <<>>
    /\ out.report.overall_score = 0
    /\ ClaimedOverall(out.report) = 150

\* the formula holds for every report that has a disposition
C21_OverallScoreWithDispositions ==
    (out.op = "verify_summary" /\ out.raised = "none" /\ out.report.dispositions # <<>>) =>
        out.report.overall_score = ClaimedOverall(out.report)

\* ------------------------------------------------------------------ C22
\* the mean over all dispositions, an unset quality_score counting as 1.0
ClaimedQualityScore(dispositions) ==
    LET n == Len(dispositions)
        total == SumSeq([i \in DOMAIN dispositions |->
                           IF dispositions[i].quality_score = None THEN 1000
                           ELSE dispositions[i].quality_score])
    IN  IF n = 0 THEN 1000 ELSE (2 * total + n) \div (2 * n)

(* C22: the quality_score of every report is the mean of the quality_score
   of all its dispositions, an unset one counting as its initial value 1.0;
   it is 1.0 for a report without dispositions and lies in [0, 1]. *)
C22_ReportQualityScore ==
    (out.op = "verify_summary" /\ out.raised = "none") =>
        /\ out.report.quality_score = ClaimedQualityScore(out.report.dispositions)
        /\ out.report.quality_score \in 0..1000

\* a report with one disposition whose quality_score is unset and one whose
\* quality_score is below 1.0; the report's score is that of the second
C22_Witness ==
    /\ out.op = "verify_summary" /\ out.raised = "none"
    /\ Len(out.report.dispositions) = 2
    /\ out.report.dispositions[1].quality_score = None
    /\ out.report.dispositions[2].quality_score \in 0..999
    /\ out.report.quality_score = out.report.dispositions[2].quality_score
    /\ out.report.quality_score < ClaimedQualityScore(out.report.dispositions)

\* the report's score is the mean over the dispositions that have one
C22_MeanOfScored ==
    (out.op = "verify_summary" /\ out.raised = "none") =>
        LET scored == SelectSeq(out.report.dispositions, LAMBDA d : d.quality_score # None)
        IN  /\ scored = <<>> => out.report.quality_score = 1000
            /\ scored # <<>> =>
                  out.report.quality_score = ClaimedQualityScore(scored)

\* ------------------------------------------------------------------ C23
\* where the text of chunk idx lies in the transcript: [first, last)
ChunkExtent(self, idx) ==
    LET pos == self.chunks[idx].pos
        window == Slice(self.transcript, pos, pos + self.chunk_size)
        first == pos + (Len(window) - Len(lstrip(window)))
    IN  <<first, first + Len(self.chunks[idx].text)>>

\* the slice of the transcript chunk idx was cut from: [pos, chunk_end)
WindowExtent(self, idx) ==
    <<self.chunks[idx].pos,
      Min(self.chunks[idx].pos + self.chunk_size, Len(self.transcript))>>

\* [first, last) expanded by context_window on each side and clamped
Expanded(self, extent) ==
    <<Max(0, extent[1] - self.context_window),
      Min(Len(self.transcript), extent[2] + self.context_window)>>

(* C23: every EvidenceSpan the BM25 retriever returns has
   0 <= start_idx < end_idx <= len(transcript) and 0 <= score <= 1, for every
   chunk_size >= 1, overlap >= 0 (also overlap >= chunk_size) and
   context_window >= 0, and is its chunk expanded by context_window on each
   side and clamped to the transcript; the chunk is read either as the
   stripped text or as the slice it was cut from. *)
C23_SpanBounds ==
    (unit.called /\ unit.raised = "none") =>
        \A k \in DOMAIN unit.spans :
           LET span == unit.spans[k]
               self == unit.self
           IN  /\ 0 <= span.start_idx /\ span.start_idx < span.end_idx
               /\ span.end_idx <= Len(self.transcript)
               /\ span.score \in 0..1000
               /\ \/ <<span.start_idx, span.end_idx>>
                        = Expanded(self, ChunkExtent(self, unit.chunk_of[k]))
                  \/ <<span.start_idx, span.end_idx>>
                        = Expanded(self, WindowExtent(self, unit.chunk_of[k]))

\* a returned span that ends before its chunk does
C23_Witness ==
    /\ unit.called /\ unit.raised = "none"
    /\ \E k \in DOMAIN unit.spans :
          /\ unit.self.overlap >= unit.self.chunk_size
          /\ unit.spans[k].end_idx < ChunkExtent(unit.self, unit.chunk_of[k])[2]

\* the bounds on the indices and on the score hold for every returned span
C23_IndexAndScoreBounds ==
    (unit.called /\ unit.raised = "none") =>
        \A k \in DOMAIN unit.spans :
           /\ 0 <= unit.spans[k].start_idx
           /\ unit.spans[k].start_idx < unit.spans[k].end_idx
           /\ unit.spans[k].end_idx <= Len(unit.self.transcript)
           /\ unit.spans[k].score \in 0..1000

\* retrieve raises when the span around a chunk is blank
C23_RetrieveRaises == unit.called /\ unit.raised = "ValidationError"

\* ------------------------------------------------------------------ C24
\* the paths of the list that resolve to a non-null, non-empty value
Usable(data, paths) ==
    {i \in DOMAIN paths : data[paths[i]] \notin {"<absent>", "None", "", "[]", "{}"}}

FirstUsable(data, paths) == CHOOSE i \in Usable(data, paths) : \A j \in Usable(data, paths) : i <= j

(* C24: resolve_with_fallbacks returns the value of the first path, in list
   order, that resolves to a non-null, non-empty value, and default when no
   path does; a null or empty value (empty string, list or map) never hides
   a later non-empty one, and the extractor gets the field text from it. *)
C24_FirstNonEmptyPath ==
    unit.called =>
        IF Usable(unit.data, unit.paths) = {}
        THEN unit.value = unit.default /\ unit.field_text = "None"
        ELSE /\ unit.value = unit.data[unit.paths[FirstUsable(unit.data, unit.paths)]]
             /\ unit.field_text = unit.value

\* the primary path holds an empty list, a fallback path holds a text, and
\* the empty list is what comes back; the extractor passes the field over
C24_Witness ==
    /\ unit.called
    /\ Len(unit.paths) >= 2
    /\ unit.data[unit.paths[1]] = "[]"
    /\ unit.data[unit.paths[2]] = "chest pain"
    /\ unit.value = "[]"
    /\ unit.field_text = "None"

\* null, a missing key and the empty string never hide a later path
C24_NullAndEmptyStringSkipped ==
    unit.called =>
        LET live == {i \in DOMAIN unit.paths :
                        unit.data[unit.paths[i]] \notin {"<absent>", "None", ""}}
        IN  IF live = {} THEN unit.value = unit.default
            ELSE \E i \in live : /\ \A j \in live : i <= j
                                  /\ unit.value = unit.data[unit.paths[i]]

\* ------------------------------------------------------------------ C25
\* the sub-claims put together again, a conjunction between two of them
RECURSIVE Rejoined(_)
Rejoined(sub_claims) ==
    IF Len(sub_claims) = 1 THEN sub_claims[1]
    ELSE sub_claims[1] \o <<"and">> \o Rejoined(Tail(sub_claims))

(* C25: split_compound_claims returns either the original text as one claim
   or sub-claims that each hold a verb and at least min_claim_length words
   and that together are all of the original text but the conjunctions they
   were split at; when a side fails the test, the text after the last
   conjunction included, nothing is split. *)
C25_SplitKeepsAllText ==
    unit.called =>
        \/ unit.sub_claims = <<unit.text>>
        \/ /\ \A i \in DOMAIN unit.sub_claims :
                 /\ Len(unit.sub_claims[i]) >= unit.min_claim_length
                 /\ \E j \in DOMAIN unit.sub_claims[i] : unit.sub_claims[i][j] = "verb"
            /\ Rejoined(unit.sub_claims) = unit.text

\* two sides are returned and the text after the last conjunction, which
\* holds no verb, is in none of them
C25_Witness ==
    /\ unit.called
    /\ Len(unit.sub_claims) = 2
    /\ unit.text = <<"verb", "and", "verb", "and", "word">>
    /\ unit.sub_claims = << <<"verb">>, <<"verb">> >>

\* each sub-claim of a split holds a verb and enough words
C25_SidesPass ==
    (unit.called /\ Len(unit.sub_claims) > 1) =>
        \A i \in DOMAIN unit.sub_claims :
           /\ Len(unit.sub_claims[i]) >= unit.min_claim_length
           /\ \E j \in DOMAIN unit.sub_claims[i] : unit.sub_claims[i][j] = "verb"

\* ------------------------------------------------------------------ C26
\* the spans of the sweep, in retriever order
Swept == 1..Min(unit.max_evidence_spans, Len(unit.evidence))

ThresholdContradiction(k) ==
    unit.evidence[k].relation = "contradiction" /\ unit.evidence[k].confidence >= 900

ThresholdEntailment(k) ==
    unit.evidence[k].relation = "entailment" /\ unit.evidence[k].confidence >= 300

(* C26: over the first max_evidence_spans spans, the verdict is supported
   when the claim and the top-ranked span are both negated; otherwise refuted
   iff some swept span is a contradiction at refute_threshold; otherwise
   supported, with the highest-confidence entailment at support_threshold,
   iff there is one; otherwise insufficient_evidence. *)
C26_NliDecisionOrder ==
    (unit.called /\ unit.evidence # <<>>) =>
        IF unit.claim_is_negated /\ unit.evidence[1].negated
        THEN unit.verdict = "supported"
        ELSE IF \E k \in Swept : ThresholdContradiction(k)
        THEN unit.verdict = "refuted"
        ELSE IF \E k \in Swept : ThresholdEntailment(k)
        THEN /\ unit.verdict = "supported"
             /\ unit.best_evidence \in Swept
             /\ ThresholdEntailment(unit.best_evidence)
             /\ \A k \in Swept : ThresholdEntailment(k) =>
                    unit.evidence[k].confidence <= unit.evidence[unit.best_evidence].confidence
        ELSE unit.verdict = "insufficient_evidence"

\* a negated claim, a top-ranked span that is not negated, a negated span
\* below it, then a contradiction at the threshold: the verdict is supported
C26_Witness ==
    /\ unit.called
    /\ unit.claim_is_negated
    /\ Len(unit.evidence) = 3 /\ unit.max_evidence_spans = 3
    /\ ~unit.evidence[1].negated /\ unit.evidence[1].relation = "neutral"
    /\ unit.evidence[2].negated
    /\ ~unit.evidence[3].negated /\ ThresholdContradiction(3)
    /\ unit.verdict = "supported"

\* with a claim that is not negated the decision order is the claimed one
C26_NliDecisionOrderPlainClaim ==
    (unit.called /\ unit.evidence # <<>> /\ ~unit.claim_is_negated) =>
        IF \E k \in Swept : ThresholdContradiction(k)
        THEN unit.verdict = "refuted"
        ELSE IF \E k \in Swept : ThresholdEntailment(k)
        THEN unit.verdict = "supported"
        ELSE unit.verdict = "insufficient_evidence"

\* ------------------------------------------------------------------ C27
\* claim and evidence hold relative phrases only, and not the same ones
SymbolicMismatch ==
    /\ unit.claim.numerics = <<>> /\ unit.evidence.numerics = <<>>
    /\ unit.claim.phrases # {} /\ unit.evidence.phrases # {}
    /\ unit.claim.phrases # unit.evidence.phrases

(* C27: without a critical unit mismatch, a claim and an evidence that hold
   only relative temporal phrases, no numeric expression, and whose phrases
   differ ("yesterday" against "last week") give the verdict refuted; the
   difference in days decides only otherwise. *)
C27_SymbolicMismatchRefuted ==
    (unit.called /\ ~unit.has_numeric_error /\ SymbolicMismatch) =>
        unit.verdict = "refuted"

\* "yesterday" in the claim, "last week" in the evidence: six days apart,
\* within drift_threshold, and the verdict is supported
C27_Witness ==
    /\ unit.called /\ ~unit.has_numeric_error
    /\ unit.claim = [phrases |-> {"yesterday"}, numerics |-> <<>>]
    /\ unit.evidence = [phrases |-> {"last week"}, numerics |-> <<>>]
    /\ unit.verdict = "supported"

\* no call is decided by the comparison of the symbolic anchors
C27_SymbolicCaseNeverTaken == unit.called => unit.case # "symbolic"

\* ------------------------------------------------------------------ C28
(* C28: with caching enabled, the retriever a verify_summary(t, ...) call
   works with was built from the transcript t, whatever calls came before,
   also when distinct transcripts have the same hash value. *)
C28_RetrieverOfTheTranscript ==
    (checker.cache_retrievers /\ out.op = "verify_summary" /\ out.raised = "none") =>
        out.retriever.transcript = out.transcript

\* a hit on the entry of another transcript with the same hash value
C28_Witness ==
    /\ checker.cache_retrievers
    /\ out.op = "verify_summary" /\ out.raised = "none"
    /\ checker._cache_hits >= 1
    /\ out.retriever.transcript # out.transcript
    /\ out.retriever.transcript \div 2 = out.transcript \div 2

\* without caching every call works with a retriever of its own transcript
C28_FreshRetrieverWithoutCache ==
    (twin_out.op = "verify_summary" /\ twin_out.raised = "none") =>
        twin_out.retriever.transcript = twin_out.transcript

\* ------------------------------------------------------------------ C30
(* C30: with caching enabled, every lookup that misses completes, for every
   max_cache_size >= 0: the eviction step never fails, the new retriever is
   returned, and verify_summary does not fail because of the cache. *)
C30_MissCompletes ==
    (checker.cache_retrievers /\ out.op = "verify_summary") =>
        /\ out.raised # "StopIteration"
        /\ out.raised = twin_out.raised

\* max_cache_size = 0: the first lookup misses, the eviction step finds the
\* cache empty, and the call that succeeds without a cache raises
C30_Witness ==
    /\ checker.cache_retrievers /\ checker.max_cache_size = 0
    /\ out.op = "verify_summary" /\ out.raised = "StopIteration"
    /\ twin_out.raised = "none"
    /\ checker._cache_misses >= 1 /\ checker._retriever_cache = <<>>

\* with room for one retriever or more no call fails in the cache
C30_MissCompletesWithRoom ==
    (checker.cache_retrievers /\ checker.max_cache_size >= 1 /\ out.op = "verify_summary") =>
        out.raised = twin_out.raised

\* ------------------------------------------------------------------ C29
(* C29: under weighted_voting, for two or more results and any non-negative
   weights, all-zero weights and ties between the verdict totals included,
   the verdict arbitrate returns is the verdict of at least one result. *)
C29_VerdictOfSomeValidator ==
    VotedOn => \E i \in DOMAIN arb.results : arb.results[i].verdict = arb.value.verdict

\* every validator has weight 0, no result says supported, and the verdict
\* is supported
C29_Witness ==
    /\ VotedOn
    /\ \A i \in DOMAIN engine.config.default_weights : engine.config.default_weights[i][2] = 0
    /\ \A i \in DOMAIN arb.results : arb.results[i].verdict = "refuted"
    /\ arb.value.verdict = "supported"

\* when some verdict total is positive the verdict is one a validator returned
C29_VerdictOfSomeValidatorPositiveTotal ==
    (VotedOn /\ \E i \in DOMAIN arb.results :
                   /\ \A j \in DOMAIN engine.config.default_weights :
                         engine.config.default_weights[j][1] = arb.results[i].validator
                         => engine.config.default_weights[j][2] > 0
                   /\ arb.results[i].score # 0)
    => \E i \in DOMAIN arb.results : arb.results[i].verdict = arb.value.verdict
====
